---- MODULE Spec2Model ----
(***************************************************************************)
(* Slayer profitability engine of the OSRS GP tracker backend:             *)
(* utils/calculations.py (calculate_slayer_gp_hr and its helpers) and      *)
(* utils/ge_api.py (get_ge_price over the shared TTL price cache).         *)
(*                                                                         *)
(* Python floats are modelled as exact rationals <<n, d>> in lowest terms  *)
(* with d > 0; round() is round-half-to-even as in Python 3.               *)
(***************************************************************************)
EXTENDS Integers, Sequences, FiniteSets, TLC

(***************************************************************************)
(* Bounds                                                                  *)
(***************************************************************************)
\* number of consecutive calls made with the same parameters
MaxCalls == 2

(***************************************************************************)
(* Python values                                                           *)
(***************************************************************************)
\* Python None (a dict is a record or function holding its present keys only)
None == <<>>

\* dict.get(key, default)
Get(rec, key, default) == IF key \in DOMAIN rec THEN rec[key] ELSE default

\* the decimal texts of the integers a level can be
NumberTexts == { ToString(n) : n \in 0..200 }

\* isinstance(v, int): a JSON body can hold a string where a level is meant
IsNumber(v) == ToString(v) \in NumberTexts

\* str(e) of the TypeError the comparison op of a str with an int raises
TypeErrorText(op) ==
    "'" \o op \o "' not supported between instances of 'str' and 'int'"

(***************************************************************************)
(* Exact rational arithmetic standing for float arithmetic                 *)
(***************************************************************************)
Abs(n) == IF n < 0 THEN -n ELSE n

RECURSIVE GCD(_, _)
GCD(a, b) == IF b = 0 THEN a ELSE GCD(b, a % b)

Rat(n, d) ==
    LET g == GCD(Abs(n), Abs(d))
        s == IF d < 0 THEN -1 ELSE 1
    IN  <<(s * n) \div g, (s * d) \div g>>

RInt(n) == <<n, 1>>
RZero == <<0, 1>>

RAdd(a, b) ==
    LET g == GCD(a[2], b[2])
    IN  Rat(a[1] * (b[2] \div g) + b[1] * (a[2] \div g), (a[2] \div g) * b[2])

RNeg(a) == <<-a[1], a[2]>>
RSub(a, b) == RAdd(a, RNeg(b))

RMul(a, b) ==
    LET g1 == GCD(Abs(a[1]), b[2])
        g2 == GCD(Abs(b[1]), a[2])
        h1 == IF g1 = 0 THEN 1 ELSE g1
        h2 == IF g2 = 0 THEN 1 ELSE g2
    IN  Rat((a[1] \div h1) * (b[1] \div h2), (a[2] \div h2) * (b[2] \div h1))

\* a / b; the caller guards b # 0 (Python raises ZeroDivisionError there)
RDiv(a, b) == RMul(a, Rat(b[2], b[1]))

RLt(a, b) == RSub(a, b)[1] < 0
RLe(a, b) == RSub(a, b)[1] <= 0
RMin(a, b) == IF RLe(a, b) THEN a ELSE b
RMax(a, b) == IF RLe(b, a) THEN a ELSE b

\* Python round(x): nearest integer, ties to the even one
Round(a) ==
    LET f == a[1] \div a[2]
        r2 == 2 * (a[1] - f * a[2])
    IN  IF r2 < a[2] THEN f
        ELSE IF r2 > a[2] THEN f + 1
        ELSE IF f % 2 = 0 THEN f ELSE f + 1

\* Python round(x, ndigits) with 10^ndigits = scale
RoundTo(a, scale) == Rat(Round(RMul(a, RInt(scale))), scale)

\* sum(range) / 2 for a two-element range
Mean2(range) == Rat(range[1] + range[2], 2)

(***************************************************************************)
(* Catalog (read-only): records shaped like the documents the repository   *)
(* stores under global_items/slayer/{masters,monsters}                     *)
(***************************************************************************)
Drop(item, qmin, qmax, prob) ==
    [item_id |-> item, quantity_range |-> <<qmin, qmax>>, probability |-> prob]

\* Field values are chosen so that every figure of a call is a rational
\* with a small denominator.

\* stored with a wiki_slug equal to the catalog id (populate_slayer_data.py)
Gargoyles ==
    [name |-> "Gargoyles", wiki_slug |-> "gargoyles", slayer_level_req |-> 75,
     combat_level |-> 200, base_kph_range |-> <<40, 60>>,
     common_supply_cost_per_hour_base |-> 100, weakness |-> "Stab",
     drop_table |-> [always |-> <<Drop(526, 1, 1, <<1, 1>>)>>,
                     common |-> <<Drop(995, 50, 150, <<1, 4>>),
                                  Drop(1149, 1, 1, <<3, 20>>)>>,
                     rare |-> <<>>, very_rare |-> <<>>]]

AbyssalDemons ==
    [name |-> "Abyssal demons", wiki_slug |-> "abyssal_demons",
     slayer_level_req |-> 85, combat_level |-> 200,
     base_kph_range |-> <<40, 60>>,
     common_supply_cost_per_hour_base |-> 200, weakness |-> "Magic/Ranged",
     drop_table |-> [always |-> <<Drop(526, 1, 1, <<1, 1>>)>>,
                     common |-> <<>>,
                     rare |-> <<Drop(4151, 1, 1, <<1, 512>>)>>,
                     very_rare |-> <<>>]]

\* stored without wiki_slug, kph range, cost and drop table
\* (populate_initial_data.py, populate_comprehensive_data.py)
RuneDragons ==
    [name |-> "Rune Dragons", slayer_level_req |-> 1, combat_level |-> 380]

MonsterIds == {"gargoyles", "abyssal_demons", "rune_dragons"}

\* the documents item_db.get_global_items('slayer', 'monsters') returns
MonsterCatalog ==
    [id \in MonsterIds |->
        CASE id = "gargoyles" -> Gargoyles
          [] id = "abyssal_demons" -> AbyssalDemons
          [] OTHER -> RuneDragons]

TaskQuantities ==
    [id \in {"gargoyles", "abyssal_demons"} |-> <<60, 66>>]

\* task_assignments in dict order: <<target id, weight>>;
\* "greater_demons" has no record in the catalog
Nieve ==
    [name |-> "Nieve", combat_req |-> 85, slayer_req |-> 0,
     task_assignments |-> << <<"gargoyles", <<2, 25>> >>,
                             <<"greater_demons", <<7, 100>> >>,
                             <<"abyssal_demons", <<3, 50>> >>,
                             <<"rune_dragons", <<3, 100>> >> >>,
     avg_task_quantity |-> TaskQuantities]

\* weights as the wiki sync derives them: weight / total_weight
Duradel ==
    [name |-> "Duradel", combat_req |-> 100, slayer_req |-> 50,
     task_assignments |-> << <<"gargoyles", <<1, 3>> >>,
                             <<"abyssal_demons", <<2, 3>> >> >>,
     avg_task_quantity |-> TaskQuantities]

MasterIds == {"nieve", "duradel"}

\* the documents item_db.get_global_items('slayer', 'masters') returns
MasterCatalog ==
    [id \in MasterIds |-> IF id = "nieve" THEN Nieve ELSE Duradel]

(***************************************************************************)
(* Price oracle (prices.runescape.wiki): the body it answers per item      *)
(***************************************************************************)
Items == {526, 995, 1149, 4151}

\* items present in data['data'] of the response
OracleItems == {526, 1149, 4151}

\* a side that is null in the body is a key the record does not hold
OracleData ==
    [i \in OracleItems |->
        CASE i = 526 -> [high |-> 6, low |-> 4]
          [] i = 1149 -> [high |-> 20, highTime |-> 1]
          [] OTHER -> [highTime |-> 0, lowTime |-> 0]]

(***************************************************************************)
(* ge_api.get_average_price                                                *)
(***************************************************************************)
\* variant: the high side is returned when both sides are present
get_average_price_HighSide(price_data) ==
    IF price_data = None THEN None
    ELSE IF "high" \in DOMAIN price_data THEN RInt(price_data.high)
    ELSE IF "low" \in DOMAIN price_data THEN RInt(price_data.low)
    ELSE None

\* ge_api.py:111-134
get_average_price(price_data) ==
    IF price_data = None THEN None
    ELSE IF "high" \in DOMAIN price_data /\ "low" \in DOMAIN price_data
         THEN Rat(price_data.high + price_data.low, 2)
    ELSE IF "high" \in DOMAIN price_data THEN RInt(price_data.high)
    ELSE IF "low" \in DOMAIN price_data THEN RInt(price_data.low)
    ELSE None

(***************************************************************************)
(* calculations.estimate_kph                                               *)
(***************************************************************************)
\* the substrings estimate_kph looks for that weakness.lower() contains
WeaknessWords(weakness) ==
    CASE weakness = "Crush" -> {"crush"}
      [] weakness = "Slash" -> {"slash"}
      [] weakness = "Ranged" -> {"ranged"}
      [] weakness = "Magic" -> {"magic"}
      [] weakness = "Magic/Ranged" -> {"magic", "ranged"}
      [] OTHER -> {}

KphKey(slug) == "kph_" \o slug

\* float(v) of a numeric override
ToFloat(v) == RInt(v)

\* variant: the adjusted value is returned unclamped
ClampKph_Unclamped(base_kph, adjusted_kph) == adjusted_kph

\* calculations.py:513-517
ClampKph(base_kph, adjusted_kph) ==
    LET min_kph == RMul(base_kph, <<1, 2>>)
        max_kph == RMul(base_kph, <<3, 2>>)
    IN  RMax(min_kph, RMin(max_kph, adjusted_kph))

\* sum(base_kph_range) raises TypeError on an element that is no number
NumberList(range) == \A i \in DOMAIN range : IsNumber(range[i])

\* the try block of calculations.py:474-517 raises: the range does not sum,
\* or float() rejects the override
KphRaises(monster_info, user_overrides) ==
    LET override_key == KphKey(Get(monster_info, "wiki_slug", ""))
    IN  \/ ~NumberList(Get(monster_info, "base_kph_range", <<30, 40>>))
        \/ /\ override_key \in DOMAIN user_overrides
           /\ ~IsNumber(user_overrides[override_key])

\* variant: the fallback is 0
KphFallback_Zero == RZero

\* calculations.py:519-521
KphFallback == RInt(30)

estimate_kph(monster_info, user_params, user_overrides) ==
    IF KphRaises(monster_info, user_overrides) THEN KphFallback ELSE
    LET base_kph_range == Get(monster_info, "base_kph_range", <<30, 40>>)
        base_kph == Mean2(base_kph_range)
        monster_slug == Get(monster_info, "wiki_slug", "")
        override_key == KphKey(monster_slug)
        user_combat == user_params.user_combat_level
        user_slayer == user_params.user_slayer_level
        monster_combat == Get(monster_info, "combat_level", 100)
        monster_slayer_req == Get(monster_info, "slayer_level_req", 1)
        floor80 == IF monster_combat > 80 THEN monster_combat ELSE 80
        combat_efficiency ==
            RMin(<<11, 10>>, RMax(<<3, 5>>, Rat(user_combat, floor80)))
        slayer_bonus ==
            RAdd(RInt(1),
                 RMin(<<1, 10>>, Rat(user_slayer - monster_slayer_req, 200)))
        words == WeaknessWords(Get(monster_info, "weakness", ""))
        melee_avg == Rat(user_params.user_attack_level
                         + user_params.user_strength_level, 2)
        weakness_bonus ==
            IF words \cap {"melee", "slash", "crush"} # {}
            THEN RAdd(RInt(1), RDiv(RSub(melee_avg, RInt(70)), RInt(300)))
            ELSE IF "ranged" \in words
            THEN RAdd(RInt(1), Rat(user_params.user_ranged_level - 70, 300))
            ELSE IF "magic" \in words
            THEN RAdd(RInt(1), Rat(user_params.user_magic_level - 70, 300))
            ELSE RInt(1)
        adjusted_kph ==
            RMul(RMul(RMul(base_kph, combat_efficiency), slayer_bonus),
                 weakness_bonus)
    IN  IF override_key \in DOMAIN user_overrides
        THEN ToFloat(user_overrides[override_key])
        ELSE ClampKph(base_kph, adjusted_kph)

(***************************************************************************)
(* calculations.adjust_supply_cost                                         *)
(***************************************************************************)
\* variant: the factor is not clamped
EfficiencyFactor_Unclamped(user_combat) ==
    RSub(RInt(1), Rat(user_combat - 90, 200))

\* calculations.py:572
EfficiencyFactor(user_combat) ==
    RMax(<<7, 10>>,
         RMin(<<13, 10>>, RSub(RInt(1), Rat(user_combat - 90, 200))))

\* float(v) returns: v is a number (of the texts an override can hold, the
\* model draws only ones that are no numeral, for which float raises)
Floatable(v) == IsNumber(v)

\* calculations.py:559-578; a ValueError of float() or a TypeError of the
\* subtraction is caught at 576-578, which returns base_cost
adjust_supply_cost(base_cost, user_params, user_overrides) ==
    IF "supply_cost_multiplier" \in DOMAIN user_overrides
    THEN IF Floatable(user_overrides["supply_cost_multiplier"])
         THEN RMul(RInt(base_cost),
                   ToFloat(user_overrides["supply_cost_multiplier"]))
         ELSE RInt(base_cost)
    ELSE LET user_combat == Get(user_params, "user_combat_level", 126)
         IN  IF IsNumber(user_combat)
             THEN RMul(RInt(base_cost), EfficiencyFactor(user_combat))
             ELSE RInt(base_cost)

(***************************************************************************)
(* Request inputs                                                          *)
(***************************************************************************)
Modes == {"expected", "breakdown", "specific"}

\* "spria" is the default master id and is not in the catalog
MasterInputs == {"nieve", "duradel", "spria"}

\* "cows" is not in the catalog
MonsterInputs == {"gargoyles", "abyssal_demons", "rune_dragons", "cows"}

SlayerLevels == {50, 75, 85}
CombatLevels == {70, 85, 100}

LevelParams ==
    { [user_slayer_level |-> s, user_combat_level |-> c] :
        s \in SlayerLevels, c \in CombatLevels }

\* the params dict of a request
ParamSets ==
    { l @@ [calculation_mode |-> m, slayer_master_id |-> d] :
        l \in LevelParams, m \in Modes \ {"specific"}, d \in MasterInputs }
    \cup
    { l @@ [calculation_mode |-> "specific", slayer_master_id |-> d] :
        l \in LevelParams, d \in MasterInputs }
    \cup
    { l @@ [calculation_mode |-> "specific", slayer_master_id |-> d,
            specific_monster_id |-> t] :
        l \in LevelParams, d \in MasterInputs, t \in MonsterInputs }

\* the user's overrides document (user_params of calculate_slayer_gp_hr)
OverrideSets ==
    { <<>>,
      [kph_gargoyles |-> 0, supply_cost_multiplier |-> 2],
      [kph_rune_dragons |-> 60] }

default_params ==
    [calculation_mode |-> "expected", slayer_master_id |-> "spria",
     user_slayer_level |-> 85, user_combat_level |-> 100,
     user_attack_level |-> 80, user_strength_level |-> 80,
     user_defence_level |-> 75, user_ranged_level |-> 85,
     user_magic_level |-> 80]

\* {**default_params, **params}
Merge(defaults, given) == given @@ defaults

(***************************************************************************)
(* State                                                                   *)
(***************************************************************************)
VARIABLES
    master_data,    \* catalog: dispenser id -> record
    monster_data,   \* catalog: target id -> record
    params,         \* the request's params dict
    user_params,    \* the user's overrides
    callNo,         \* calls started so far with these inputs
    pc,             \* position of the running call
    price_cache,    \* ge_api.price_cache: cached item -> price record
    idx,            \* position in task_assignments
    monster,        \* id of the target being valued
    estimated_kph,  \* estimate_kph of that target
    drops,          \* drop entries of its table still to be valued
    total_expected_value,   \* accumulator of calculate_expected_loot
    total_weighted_gp_hr,
    total_probability,
    task_details,
    result,         \* the record the running call returned
    seen,           \* history: <<drop, price_data>> of the table valued
    processed,      \* history: targets aggregated by the running call
    lookups,        \* history: get_ge_price calls of the running call
    results,        \* history: records returned by the finished calls
    oracleFailed,   \* history: some oracle request failed
    est,            \* input and output of a lone evaluation of a function
    requests        \* thread -> the get_ge_price call it is making

vars == <<master_data, monster_data, params, user_params, callNo, pc,
          price_cache, idx, monster, estimated_kph, drops,
          total_expected_value, total_weighted_gp_hr, total_probability,
          task_details, result, seen, processed, lookups, results,
          oracleFailed, est, requests>>

calc_params == Merge(default_params, params)

\* the body of a POST to /api/slayer/breakdown holds user_levels and is
\* served by get_slayer_task_breakdown (app.py:188-196); any other request
\* is served by calculate_slayer_gp_hr (app.py:136-161)
IsBreakdownRequest == "user_levels" \in DOMAIN params

\* variant: the figures of a call are stored in the target records
InputsRead_Stored ==
    /\ monster_data' = [id \in DOMAIN monster_data |->
                           [gp_hr |-> 0] @@ monster_data[id]]
    /\ UNCHANGED <<master_data, params, user_params>>

\* the catalog, the request and the overrides are only read (dict.get,
\* subscripts, iteration): no step assigns into them
InputsRead == UNCHANGED <<master_data, monster_data, params, user_params>>

EngineIdle ==
    /\ master_data = MasterCatalog
    /\ monster_data = MonsterCatalog
    /\ callNo = 0
    /\ pc = "idle"
    /\ price_cache = <<>>
    /\ idx = 0
    /\ monster = ""
    /\ estimated_kph = RZero
    /\ drops = <<>>
    /\ total_expected_value = RZero
    /\ total_weighted_gp_hr = RZero
    /\ total_probability = RZero
    /\ task_details = <<>>
    /\ result = None
    /\ seen = <<>>
    /\ processed = <<>>
    /\ lookups = 0
    /\ results = <<>>
    /\ oracleFailed = FALSE

Init ==
    /\ params \in ParamSets
    /\ user_params \in OverrideSets
    /\ EngineIdle
    /\ est = None
    /\ requests = <<>>

(***************************************************************************)
(* calculate_slayer_gp_hr / calculate_specific_monster_gp_hr: the checks   *)
(* made before any per-target work                                         *)
(***************************************************************************)
\* variant: a user whose level equals the requirement is rejected
MasterRequirementsUnmet_Strict(cp, master_info) ==
    \/ cp.user_combat_level <= Get(master_info, "combat_req", 0)
    \/ cp.user_slayer_level <= Get(master_info, "slayer_req", 0)

\* calculations.py:301-302
MasterRequirementsUnmet(cp, master_info) ==
    \/ cp.user_combat_level < Get(master_info, "combat_req", 0)
    \/ cp.user_slayer_level < Get(master_info, "slayer_req", 0)

\* calculations.py:303-312
MasterRequirementsResult(cp, master_info) ==
    [error |-> "User doesn't meet requirements for " \o master_info.name,
     gp_hr |-> 0,
     requirements |->
        [combat_required |-> Get(master_info, "combat_req", 0),
         slayer_required |-> Get(master_info, "slayer_req", 0),
         user_combat |-> cp.user_combat_level,
         user_slayer |-> cp.user_slayer_level]]

\* variant: the record carries no gp_hr
ErrorResult_NoGpHr(msg) == [error |-> msg]

\* calculations.py:298 and 421, 287, 408, 468
ErrorResult(msg) == [error |-> msg, gp_hr |-> 0]

\* calculations.py:301-302: the comparisons raise TypeError on a level that
\* is not a number (the second is evaluated when the first is False)
MasterGateRaises(cp, master_info) ==
    \/ ~IsNumber(cp.user_combat_level)
    \/ /\ cp.user_combat_level >= Get(master_info, "combat_req", 0)
       /\ ~IsNumber(cp.user_slayer_level)

\* calculations.py:335 and 425
SlayerLevelUnmet(cp, monster_info) ==
    cp.user_slayer_level < Get(monster_info, "slayer_level_req", 1)

\* variant: the two requirement figures are swapped
SlayerRequirementsResult_Swapped(cp, monster_id, monster_info) ==
    [error |-> "Insufficient Slayer level for "
                 \o Get(monster_info, "name", monster_id),
     gp_hr |-> 0,
     requirements |->
        [slayer_required |-> cp.user_slayer_level,
         user_slayer |-> Get(monster_info, "slayer_level_req", 1)]]

\* calculations.py:426-433
SlayerRequirementsResult(cp, monster_id, monster_info) ==
    [error |-> "Insufficient Slayer level for "
                 \o Get(monster_info, "name", monster_id),
     gp_hr |-> 0,
     requirements |->
        [slayer_required |-> Get(monster_info, "slayer_level_req", 1),
         user_slayer |-> cp.user_slayer_level]]

\* calculate_expected_loot walks the tiers in this order
DropList(drop_table) ==
    Get(drop_table, "always", <<>>) \o Get(drop_table, "common", <<>>)
    \o Get(drop_table, "rare", <<>>) \o Get(drop_table, "very_rare", <<>>)

TaskAssignments == Get(master_data[calc_params.slayer_master_id],
                       "task_assignments", <<>>)

(***************************************************************************)
(* Steps of a call                                                         *)
(***************************************************************************)
\* the call returns record r
Return(r) ==
    /\ result' = r
    /\ results' = Append(results, r)
    /\ pc' = "done"

\* estimate_kph, then calculate_expected_loot starts on the target's table
BeginTarget(id) ==
    /\ monster' = id
    /\ estimated_kph' = estimate_kph(monster_data[id], calc_params, user_params)
    /\ drops' = DropList(Get(monster_data[id], "drop_table", <<>>))
    /\ total_expected_value' = RZero
    /\ seen' = <<>>
    /\ pc' = "loot"

NoTarget ==
    /\ monster' = ""
    /\ estimated_kph' = RZero
    /\ drops' = <<>>
    /\ total_expected_value' = RZero
    /\ seen' = <<>>

\* calculate_specific_monster_gp_hr up to the estimate (calculations.py:414-436)
CalculateSpecific(monster_id) ==
    IF monster_id \notin DOMAIN monster_data
    THEN /\ Return(ErrorResult("Monster '" \o monster_id \o "' not found"))
         /\ NoTarget
    \* the comparison of line 425 raises: except of 466-468
    ELSE IF ~IsNumber(calc_params.user_slayer_level)
    THEN /\ Return(ErrorResult(TypeErrorText("<")))
         /\ NoTarget
    ELSE IF SlayerLevelUnmet(calc_params, monster_data[monster_id])
    THEN /\ Return(SlayerRequirementsResult(calc_params, monster_id,
                                            monster_data[monster_id]))
         /\ NoTarget
    ELSE /\ BeginTarget(monster_id)
         /\ result' = None
         /\ UNCHANGED results

\* variant: the identifier is not checked and the catalog is asked for None
StartSpecific_Unchecked ==
    CalculateSpecific(Get(calc_params, "specific_monster_id", "None"))

\* variant: the dispenser is looked up before the target
StartSpecific_Gated ==
    IF calc_params.slayer_master_id \notin DOMAIN master_data
    THEN /\ Return(ErrorResult("Slayer master data not found"))
         /\ NoTarget
    ELSE IF "specific_monster_id" \notin DOMAIN calc_params
    THEN /\ Return(ErrorResult("Specific monster ID required for specific mode"))
         /\ NoTarget
    ELSE CalculateSpecific(calc_params.specific_monster_id)

\* calculations.py:283-289
StartSpecific ==
    IF "specific_monster_id" \notin DOMAIN calc_params
    THEN /\ Return(ErrorResult("Specific monster ID required for specific mode"))
         /\ NoTarget
    ELSE CalculateSpecific(calc_params.specific_monster_id)

\* calculations.py:293-323
StartMaster ==
    /\ NoTarget
    /\ IF calc_params.slayer_master_id \notin DOMAIN master_data
       THEN Return(ErrorResult("Slayer master data not found"))
       ELSE LET master_info == master_data[calc_params.slayer_master_id]
            \* the comparison raises: except of 406-408
            IN  IF MasterGateRaises(calc_params, master_info)
                THEN Return(ErrorResult(TypeErrorText("<")))
                ELSE IF MasterRequirementsUnmet(calc_params, master_info)
                THEN Return(MasterRequirementsResult(calc_params, master_info))
                ELSE /\ pc' = "target"
                     /\ result' = None
                     /\ UNCHANGED results

\* calculate_slayer_gp_hr is entered (calculations.py:266-323)
StartCall ==
    /\ ~IsBreakdownRequest
    /\ pc \in {"idle", "done"}
    /\ callNo < MaxCalls
    /\ callNo' = callNo + 1
    /\ idx' = 1
    /\ total_weighted_gp_hr' = RZero
    /\ total_probability' = RZero
    /\ task_details' = <<>>
    /\ processed' = <<>>
    /\ lookups' = 0
    /\ IF calc_params.calculation_mode = "specific"
       THEN StartSpecific
       ELSE StartMaster
    /\ InputsRead
    /\ UNCHANGED <<price_cache, oracleFailed, est,
                   requests>>

\* the head of the loop over task_assignments (calculations.py:325-343)
NextTarget ==
    /\ pc = "target"
    /\ idx <= Len(TaskAssignments)
    /\ LET monster_slug == TaskAssignments[idx][1]
       IN  IF monster_slug \notin DOMAIN monster_data
           THEN /\ idx' = idx + 1
                /\ UNCHANGED <<pc, monster, estimated_kph, drops,
                               total_expected_value, seen>>
           ELSE IF SlayerLevelUnmet(calc_params, monster_data[monster_slug])
           THEN /\ idx' = idx + 1
                /\ UNCHANGED <<pc, monster, estimated_kph, drops,
                               total_expected_value, seen>>
           ELSE /\ BeginTarget(monster_slug)
                /\ UNCHANGED idx
    /\ InputsRead
    /\ UNCHANGED <<callNo, price_cache,
                   total_weighted_gp_hr, total_probability, task_details,
                   result, processed, lookups, results, oracleFailed, est,
                   requests>>

(***************************************************************************)
(* ge_api.get_ge_price over the TTL cache, inside calculate_expected_loot  *)
(***************************************************************************)
\* variant: a lookup without a price ends the valuation with the fallback
ValueDrop_Aborting(total, todo, price_data) ==
    LET drop == Head(todo)
        item_price == get_average_price(price_data)
        avg_quantity == Mean2(Get(drop, "quantity_range", <<1, 1>>))
        probability == Get(drop, "probability", RZero)
    IN  IF price_data = None \/ item_price = None
        THEN <<RInt(1000), <<>> >>
        ELSE <<RAdd(total, RMul(RMul(item_price, avg_quantity), probability)),
               Tail(todo)>>

\* calculations.py:543-551: what the valuation does with the looked-up price
\* <<total_expected_value, drops still to value>>
ValueDrop(total, todo, price_data) ==
    LET drop == Head(todo)
        item_price == get_average_price(price_data)
        avg_quantity == Mean2(Get(drop, "quantity_range", <<1, 1>>))
        probability == Get(drop, "probability", RZero)
    IN  IF price_data = None
        THEN <<total, Tail(todo)>>
        ELSE IF item_price = None
        \* None * avg_quantity raises TypeError: the except returns 1000
        THEN <<RInt(1000), <<>> >>
        ELSE <<RAdd(total, RMul(RMul(item_price, avg_quantity), probability)),
               Tail(todo)>>

\* get_ge_price returned price_data to calculate_expected_loot
PriceReturned(price_data) ==
    LET v == ValueDrop(total_expected_value, drops, price_data)
    IN  /\ total_expected_value' = v[1]
        /\ drops' = v[2]
        /\ seen' = Append(seen, <<Head(drops), price_data>>)
        /\ pc' = "loot"

\* ge_api.py:28-29: cache_key in price_cache
GeCheck ==
    /\ pc = "loot"
    /\ drops # <<>>
    /\ lookups' = lookups + 1
    /\ pc' = IF Head(drops).item_id \in DOMAIN price_cache
             THEN "read" ELSE "fetch"
    /\ InputsRead
    /\ UNCHANGED <<callNo, price_cache, idx, monster,
                   estimated_kph, drops, total_expected_value,
                   total_weighted_gp_hr, total_probability, task_details,
                   result, seen, processed, results, oracleFailed, est,
                   requests>>

\* ge_api.py:31: price_cache[cache_key]; an entry that expired since the
\* membership test raises KeyError, which line 62 turns into None
GeRead ==
    /\ pc = "read"
    /\ LET item_id == Head(drops).item_id
       IN  IF item_id \in DOMAIN price_cache
           THEN PriceReturned(price_cache[item_id])
           ELSE PriceReturned(None)
    /\ InputsRead
    /\ UNCHANGED <<callNo, price_cache, idx, monster,
                   estimated_kph, total_weighted_gp_hr, total_probability,
                   task_details, result, processed, lookups, results,
                   oracleFailed, est,
                   requests>>

\* variant: the fetched record is not kept
CachePut_Dropping(cache, item_id, price_data) == cache

\* TTLCache.__setitem__
CachePut(cache, item_id, price_data) ==
    [i \in DOMAIN cache \cup {item_id} |->
        IF i = item_id THEN price_data ELSE cache[i]]

\* ge_api.py:41-57: the request is answered
GeFetchAnswered ==
    /\ pc = "fetch"
    /\ LET item_id == Head(drops).item_id
       IN  IF item_id \in DOMAIN OracleData
           THEN /\ price_cache' = CachePut(price_cache, item_id,
                                           OracleData[item_id])
                /\ PriceReturned(OracleData[item_id])
           ELSE /\ PriceReturned(None)
                /\ UNCHANGED price_cache
    /\ InputsRead
    /\ UNCHANGED <<callNo, idx, monster, estimated_kph,
                   total_weighted_gp_hr, total_probability, task_details,
                   result, processed, lookups, results, oracleFailed, est,
                   requests>>

\* ge_api.py:41-44, 59-64: timeout, HTTP error or a body that is no JSON
GeFetchFailed ==
    /\ pc = "fetch"
    /\ PriceReturned(None)
    /\ oracleFailed' = TRUE
    /\ InputsRead
    /\ UNCHANGED <<callNo, price_cache, idx, monster,
                   estimated_kph, total_weighted_gp_hr, total_probability,
                   task_details, result, processed, lookups, results, est,
                   requests>>

\* TTLCache(maxsize=500, ttl=300): the entry of item_id outlives its ttl
Expire(item_id) ==
    /\ item_id \in DOMAIN price_cache
    /\ price_cache' = [i \in DOMAIN price_cache \ {item_id} |-> price_cache[i]]
    /\ UNCHANGED <<master_data, monster_data, params, user_params>>
    /\ UNCHANGED <<callNo, pc, idx, monster,
                   estimated_kph, drops, total_expected_value,
                   total_weighted_gp_hr, total_probability, task_details,
                   result, seen, processed, lookups, results, oracleFailed,
                   est,
                   requests>>

(***************************************************************************)
(* Per-target figures and aggregation                                      *)
(***************************************************************************)
\* calculations.py:351
travel_banking_time_hours == <<1, 10>>

\* calculations.py:346-347
AvgTaskQuantity(master_info, monster_slug) ==
    Mean2(Get(Get(master_info, "avg_task_quantity", <<>>), monster_slug,
              <<100, 150>>))

\* variant: no travel and banking overhead
TotalTaskTime_NoOverhead(avg_task_quantity, kph) ==
    RDiv(avg_task_quantity, kph)

\* calculations.py:350-352 (kph # 0)
TotalTaskTime(avg_task_quantity, kph) ==
    RAdd(RDiv(avg_task_quantity, kph), travel_banking_time_hours)

\* calculations.py:350, 362: the divisions that raise ZeroDivisionError
TaskRaises(avg_task_quantity, kph) ==
    \/ kph = RZero
    \/ TotalTaskTime(avg_task_quantity, kph) = RZero

\* calculations.py:355-362
TaskGpHr(loot_per_kill, avg_task_quantity, kph, adjusted_supply_cost) ==
    LET total_task_time_hours == TotalTaskTime(avg_task_quantity, kph)
        task_supply_cost == RMul(adjusted_supply_cost, total_task_time_hours)
        task_revenue == RMul(loot_per_kill, avg_task_quantity)
        task_profit == RSub(task_revenue, task_supply_cost)
    IN  RDiv(task_profit, total_task_time_hours)

\* calculations.py:355-356 and 442-443
AdjustedSupplyCost(monster_info) ==
    adjust_supply_cost(
        Get(monster_info, "common_supply_cost_per_hour_base", 50000),
        calc_params, user_params)

\* calculations.py:371-380
TaskDetail(name, weight, kph, loot, quantity, time, task_gp_hr) ==
    [monster_name |-> name,
     assignment_probability |-> weight,
     estimated_kph |-> RoundTo(kph, 10),
     expected_loot_per_kill |-> Round(loot),
     avg_task_quantity |-> Round(quantity),
     task_time_hours |-> RoundTo(time, 100),
     task_gp_hr |-> Round(task_gp_hr),
     weighted_contribution |-> Round(RMul(task_gp_hr, weight))]

\* variant: the weighted sum is not divided by the eligible weight
FinalGpHr_Diluted(weighted, probability) == weighted

\* calculations.py:387
FinalGpHr(weighted, probability) ==
    IF RLt(RZero, probability) THEN RDiv(weighted, probability) ELSE RZero

\* variant: rounded to two decimals
TotalAssignmentProbability_TwoDigits(probability) == RoundTo(probability, 100)

\* calculations.py:392
TotalAssignmentProbability(probability) == RoundTo(probability, 1000)

\* calculations.py:393
EligibleTasks(details) ==
    Cardinality({i \in 1..Len(details) : details[i].task_gp_hr > 0})

\* variant: the records stay in the order of the assignment list
SortedByContribution_Unsorted(details) == details

\* sorted(..., key=weighted_contribution, reverse=True): stable, descending
RECURSIVE SortedByContribution(_)
SortedByContribution(details) ==
    IF details = <<>> THEN <<>>
    ELSE LET rest == SortedByContribution(SubSeq(details, 1, Len(details) - 1))
             t == details[Len(details)]
             before == SelectSeq(rest,
                         LAMBDA u : u.weighted_contribution
                                      >= t.weighted_contribution)
             after == SelectSeq(rest,
                         LAMBDA u : u.weighted_contribution
                                      < t.weighted_contribution)
         IN  before \o <<t>> \o after

\* calculations.py:389-404
MasterResult(cp, master_info, weighted, probability, details) ==
    LET base == [gp_hr |-> Round(FinalGpHr(weighted, probability)),
                 master_name |-> Get(master_info, "name", "Unknown"),
                 total_assignment_probability |->
                     TotalAssignmentProbability(probability),
                 eligible_tasks |-> EligibleTasks(details),
                 user_levels |-> [slayer |-> cp.user_slayer_level,
                                  combat |-> cp.user_combat_level]]
    IN  IF cp.calculation_mode = "breakdown"
        THEN base @@ [task_breakdown |-> SortedByContribution(details)]
        ELSE base

\* variant: the supply cost is added to the hourly revenue
SpecificResult_CostAdded(cp, monster_id, monster_info, kph, loot, cost) ==
    [gp_hr |-> Round(RAdd(RMul(kph, loot), cost)),
     monster_name |-> Get(monster_info, "name", monster_id),
     kills_per_hour |-> RoundTo(kph, 10),
     loot_per_kill |-> Round(loot),
     hourly_revenue |-> Round(RMul(kph, loot)),
     supply_cost_per_hour |-> Round(cost),
     user_levels |-> [slayer |-> cp.user_slayer_level,
                      combat |-> cp.user_combat_level],
     requirements |->
        [slayer_required |-> Get(monster_info, "slayer_level_req", 1),
         combat_required |-> Get(monster_info, "combat_level_req", 1)]]

\* calculations.py:445-464
SpecificResult(cp, monster_id, monster_info, kph, loot, cost) ==
    LET hourly_revenue == RMul(kph, loot)
        gp_hr == RSub(hourly_revenue, cost)
    IN  [gp_hr |-> Round(gp_hr),
         monster_name |-> Get(monster_info, "name", monster_id),
         kills_per_hour |-> RoundTo(kph, 10),
         loot_per_kill |-> Round(loot),
         hourly_revenue |-> Round(hourly_revenue),
         supply_cost_per_hour |-> Round(cost),
         user_levels |-> [slayer |-> cp.user_slayer_level,
                          combat |-> cp.user_combat_level],
         requirements |->
            [slayer_required |-> Get(monster_info, "slayer_level_req", 1),
             combat_required |-> Get(monster_info, "combat_level_req", 1)]]

\* calculate_expected_loot returned; 'specific' mode finishes
\* (calculations.py:439-464)
FinishSpecific ==
    /\ pc = "loot"
    /\ drops = <<>>
    /\ ~IsBreakdownRequest
    /\ calc_params.calculation_mode = "specific"
    /\ Return(SpecificResult(calc_params, monster, monster_data[monster],
                             estimated_kph, total_expected_value,
                             AdjustedSupplyCost(monster_data[monster])))
    /\ InputsRead
    /\ UNCHANGED <<callNo, price_cache, idx, monster,
                   estimated_kph, drops, total_expected_value,
                   total_weighted_gp_hr, total_probability, task_details,
                   seen, processed, lookups, oracleFailed, est,
                   requests>>

\* variant: the weight of the failed target is still counted
SkipFailed_Counted(weight) ==
    /\ total_probability' = RAdd(total_probability, weight)
    /\ UNCHANGED <<total_weighted_gp_hr, task_details, processed>>

\* calculations.py:382-384: the except of the loop body logs and continues
SkipFailed(weight) ==
    UNCHANGED <<total_weighted_gp_hr, total_probability, task_details,
                processed>>

\* calculate_expected_loot returned; the rest of the loop body
\* (calculations.py:343-384)
FinishTarget ==
    /\ pc = "loot"
    /\ drops = <<>>
    /\ ~IsBreakdownRequest
    /\ calc_params.calculation_mode # "specific"
    /\ LET master_info == master_data[calc_params.slayer_master_id]
           monster_info == monster_data[monster]
           weight == TaskAssignments[idx][2]
           quantity == AvgTaskQuantity(master_info, monster)
           time == TotalTaskTime(quantity, estimated_kph)
           task_gp_hr == TaskGpHr(total_expected_value, quantity,
                                  estimated_kph,
                                  AdjustedSupplyCost(monster_info))
       IN  IF TaskRaises(quantity, estimated_kph)
           THEN SkipFailed(weight)
           ELSE /\ total_weighted_gp_hr' =
                       RAdd(total_weighted_gp_hr, RMul(task_gp_hr, weight))
                /\ total_probability' = RAdd(total_probability, weight)
                /\ task_details' =
                       IF calc_params.calculation_mode = "breakdown"
                       THEN Append(task_details,
                                   TaskDetail(Get(monster_info, "name",
                                                  monster),
                                              weight, estimated_kph,
                                              total_expected_value, quantity,
                                              time, task_gp_hr))
                       ELSE task_details
                /\ processed' = Append(processed,
                                       [id |-> monster, weight |-> weight,
                                        task_gp_hr |-> task_gp_hr])
    /\ idx' = idx + 1
    /\ pc' = "target"
    /\ InputsRead
    /\ UNCHANGED <<callNo, price_cache, monster,
                   estimated_kph, drops, total_expected_value, result, seen,
                   lookups, results, oracleFailed, est,
                   requests>>

\* the loop is over (calculations.py:386-404)
FinishCall ==
    /\ pc = "target"
    /\ idx > Len(TaskAssignments)
    /\ Return(MasterResult(calc_params,
                           master_data[calc_params.slayer_master_id],
                           total_weighted_gp_hr, total_probability,
                           task_details))
    /\ InputsRead
    /\ UNCHANGED <<callNo, price_cache, idx, monster,
                   estimated_kph, drops, total_expected_value,
                   total_weighted_gp_hr, total_probability, task_details,
                   seen, processed, lookups, oracleFailed, est,
                   requests>>

(***************************************************************************)
(* calculations.get_slayer_task_breakdown, the entry point of the route    *)
(* /api/slayer/breakdown. Its locals are kept in the variables of the      *)
(* engine: eligible_assignments in task_details, total_weight in           *)
(* total_probability.                                                      *)
(***************************************************************************)
\* app.py:189
user_levels == Get(params, "user_levels", <<>>)

\* calculations.py:655-656
BdUserSlayer == Get(user_levels, "slayer_level", 1)
BdUserCombat == Get(user_levels, "combat_level", 3)

\* calculations.py:660-669
monster_params(assignment_id) ==
    [monster_id |-> assignment_id,
     user_slayer_level |-> BdUserSlayer,
     user_combat_level |-> BdUserCombat,
     user_attack_level |-> Get(user_levels, "attack_level", 1),
     user_strength_level |-> Get(user_levels, "strength_level", 1),
     user_defence_level |-> Get(user_levels, "defence_level", 1),
     user_ranged_level |-> Get(user_levels, "ranged_level", 1),
     user_magic_level |-> Get(user_levels, "magic_level", 1)]

\* calculations.py:643
master_assignments ==
    Get(master_data[params.slayer_master_id], "task_assignments", <<>>)

\* calculations.py:619-643: no requirement of the dispenser is looked at
BdStart ==
    /\ IsBreakdownRequest
    /\ pc \in {"idle", "done"}
    /\ callNo < MaxCalls
    /\ callNo' = callNo + 1
    /\ idx' = 1
    /\ total_weighted_gp_hr' = RZero
    /\ total_probability' = RZero
    /\ task_details' = <<>>
    /\ processed' = <<>>
    /\ lookups' = 0
    /\ NoTarget
    /\ IF params.slayer_master_id \notin DOMAIN master_data
       THEN Return([error |-> "Slayer master '" \o params.slayer_master_id
                                \o "' not found"])
       ELSE /\ pc' = "bd_target"
            /\ result' = None
            /\ UNCHANGED results
    /\ InputsRead
    /\ UNCHANGED <<price_cache, oracleFailed, est,
                   requests>>

\* calculations.py:672-673: estimate_kph, then calculate_expected_loot starts
BdBeginTarget(id) ==
    /\ monster' = id
    /\ estimated_kph' = estimate_kph(monster_data[id], monster_params(id),
                                     user_params)
    /\ drops' = DropList(Get(monster_data[id], "drop_table", <<>>))
    /\ total_expected_value' = RZero
    /\ seen' = <<>>
    /\ pc' = "loot"

\* variant: the combat requirement of the target is not looked at
MeetsTarget_SlayerOnly(monster_info) ==
    BdUserSlayer >= Get(monster_info, "slayer_level_req", 1)

\* calculations.py:658
MeetsTarget(monster_info) ==
    /\ BdUserSlayer >= Get(monster_info, "slayer_level_req", 1)
    /\ BdUserCombat >= Get(monster_info, "combat_level_req", 1)

\* the head of the loop over master_assignments (calculations.py:645-673)
BdNextTarget ==
    /\ pc = "bd_target"
    /\ idx <= Len(master_assignments)
    /\ LET assignment_id == master_assignments[idx][1]
       IN  IF assignment_id \notin DOMAIN monster_data
           THEN /\ idx' = idx + 1
                /\ UNCHANGED <<pc, monster, estimated_kph, drops,
                               total_expected_value, seen, result, results>>
           \* the comparison of line 658 raises: except of 764-766
           ELSE IF ~IsNumber(BdUserSlayer)
           THEN /\ Return([error |-> TypeErrorText(">=")])
                /\ UNCHANGED <<idx, monster, estimated_kph, drops,
                               total_expected_value, seen>>
           ELSE IF MeetsTarget(monster_data[assignment_id])
           THEN /\ BdBeginTarget(assignment_id)
                /\ UNCHANGED <<idx, result, results>>
           ELSE /\ idx' = idx + 1
                /\ UNCHANGED <<pc, monster, estimated_kph, drops,
                               total_expected_value, seen, result, results>>
    /\ InputsRead
    /\ UNCHANGED <<callNo, price_cache, total_weighted_gp_hr,
                   total_probability, task_details, processed, lookups,
                   oracleFailed, est,
                   requests>>

\* calculations.py:687
TimePerTask(avg_task_length, kills_per_hour) ==
    IF RLt(RZero, kills_per_hour) THEN RDiv(avg_task_length, kills_per_hour)
    ELSE RInt(1)

\* calculations.py:681
GpPerHour(kills_per_hour, avg_loot_value, supply_cost) ==
    RSub(RMul(kills_per_hour, avg_loot_value), supply_cost)

\* calculations.py:681-705
AssignmentInfo(assignment_id, monster_info, weight, kph, loot, cost, length) ==
    LET slayer_req == Get(monster_info, "slayer_level_req", 1)
        combat_req == Get(monster_info, "combat_level_req", 1)
        gp_per_hour == GpPerHour(kph, loot, cost)
        time_per_task_hours == TimePerTask(length, kph)
        gp_per_task == RMul(gp_per_hour, time_per_task_hours)
    IN  [monster_name |-> Get(monster_info, "name", assignment_id),
         monster_id |-> assignment_id,
         weight |-> weight,
         probability |-> RZero,
         slayer_requirement |-> slayer_req,
         combat_requirement |-> combat_req,
         kills_per_hour |-> RoundTo(kph, 10),
         avg_loot_value_per_kill |-> Round(loot),
         supply_cost_per_hour |-> Round(cost),
         gp_per_hour |-> Round(gp_per_hour),
         avg_task_length |-> Round(length),
         time_per_task_hours |-> RoundTo(time_per_task_hours, 100),
         gp_per_task |-> Round(gp_per_task),
         requirements |-> ToString(slayer_req) \o " Slayer, "
                            \o ToString(combat_req) \o " Combat"]

\* calculate_expected_loot returned; the rest of the loop body
\* (calculations.py:673-708)
BdFinishTarget ==
    /\ pc = "loot"
    /\ drops = <<>>
    /\ IsBreakdownRequest
    /\ LET monster_info == monster_data[monster]
           weight == master_assignments[idx][2]
           supply_cost ==
               adjust_supply_cost(
                   Get(monster_info, "common_supply_cost_per_hour_base", 50000),
                   monster_params(monster), user_params)
           length == AvgTaskQuantity(master_data[params.slayer_master_id],
                                     monster)
       IN  /\ task_details' =
                  Append(task_details,
                         AssignmentInfo(monster, monster_info, weight,
                                        estimated_kph, total_expected_value,
                                        supply_cost, length))
           /\ total_probability' = RAdd(total_probability, weight)
           /\ processed' =
                  Append(processed,
                         [id |-> monster, weight |-> weight,
                          task_gp_hr |-> GpPerHour(estimated_kph,
                                                   total_expected_value,
                                                   supply_cost)])
    /\ idx' = idx + 1
    /\ pc' = "bd_target"
    /\ InputsRead
    /\ UNCHANGED <<callNo, price_cache, monster, estimated_kph, drops,
                   total_expected_value, total_weighted_gp_hr, result, seen,
                   lookups, results, oracleFailed, est,
                   requests>>

\* variant: the weight is not divided by the eligible weight
WithProbabilities_Raw(assignments, total_weight) ==
    [i \in 1..Len(assignments) |->
        [assignments[i] EXCEPT !.probability = assignments[i].weight]]

\* calculations.py:711-715
WithProbabilities(assignments, total_weight) ==
    [i \in 1..Len(assignments) |->
        [assignments[i] EXCEPT
            !.probability = IF RLt(RZero, total_weight)
                            THEN RDiv(assignments[i].weight, total_weight)
                            ELSE RZero]]

\* sum(value * assignment['probability'] for assignment in ...), the values
\* given as <<value, probability>>
RECURSIVE SumByProbability(_)
SumByProbability(pairs) ==
    IF pairs = <<>> THEN RZero
    ELSE RAdd(RMul(Head(pairs)[1], Head(pairs)[2]),
              SumByProbability(Tail(pairs)))

\* calculations.py:718-751
OverallSummary(assignments, possible) ==
    LET expected_gp_per_hour ==
            SumByProbability([i \in 1..Len(assignments) |->
                <<RInt(assignments[i].gp_per_hour),
                  assignments[i].probability>>])
        avg_gp_per_task ==
            SumByProbability([i \in 1..Len(assignments) |->
                <<RInt(assignments[i].gp_per_task),
                  assignments[i].probability>>])
        avg_time_per_task ==
            SumByProbability([i \in 1..Len(assignments) |->
                <<assignments[i].time_per_task_hours,
                  assignments[i].probability>>])
        tasks_per_hour ==
            IF RLt(RZero, avg_time_per_task)
            THEN RDiv(RInt(1), avg_time_per_task) ELSE RZero
    IN  IF assignments # <<>>
        THEN [expected_gp_per_hour |-> Round(expected_gp_per_hour),
              avg_gp_per_task |-> Round(avg_gp_per_task),
              tasks_per_hour |-> RoundTo(tasks_per_hour, 100),
              available_tasks |-> Len(assignments),
              total_possible_tasks |-> possible]
        ELSE [expected_gp_per_hour |-> 0,
              avg_gp_per_task |-> 0,
              tasks_per_hour |-> RZero,
              available_tasks |-> 0,
              total_possible_tasks |-> possible]

\* list.sort(key=gp_per_hour, reverse=True): stable, descending
RECURSIVE SortedByGpPerHour(_)
SortedByGpPerHour(assignments) ==
    IF assignments = <<>> THEN <<>>
    ELSE LET rest == SortedByGpPerHour(SubSeq(assignments, 1,
                                              Len(assignments) - 1))
             t == assignments[Len(assignments)]
             before == SelectSeq(rest,
                         LAMBDA u : u.gp_per_hour >= t.gp_per_hour)
             after == SelectSeq(rest,
                         LAMBDA u : u.gp_per_hour < t.gp_per_hour)
         IN  before \o <<t>> \o after

\* calculations.py:710-762
BreakdownResult(master_id, master_info, levels, eligible, total_weight) ==
    LET assignments == WithProbabilities(eligible, total_weight)
    IN  [master_name |-> Get(master_info, "name", master_id),
         master_id |-> master_id,
         user_levels |-> levels,
         assignments |-> SortedByGpPerHour(assignments),
         overall |-> OverallSummary(assignments,
                        Len(Get(master_info, "task_assignments", <<>>)))]

\* the loop is over (calculations.py:710-762)
BdFinishCall ==
    /\ pc = "bd_target"
    /\ idx > Len(master_assignments)
    /\ Return(BreakdownResult(params.slayer_master_id,
                              master_data[params.slayer_master_id],
                              user_levels, task_details, total_probability))
    /\ InputsRead
    /\ UNCHANGED <<callNo, price_cache, idx, monster, estimated_kph, drops,
                   total_expected_value, total_weighted_gp_hr,
                   total_probability, task_details, seen, processed, lookups,
                   oracleFailed, est,
                   requests>>

Next ==
    \/ StartCall
    \/ NextTarget
    \/ GeCheck
    \/ GeRead
    \/ GeFetchAnswered
    \/ GeFetchFailed
    \/ FinishSpecific
    \/ FinishTarget
    \/ FinishCall
    \/ \E item_id \in Items : Expire(item_id)

Spec == Init /\ [][Next]_vars

(***************************************************************************)
(* The two routes of app.py over the same catalog and price cache, with    *)
(* request bodies that can hold a string where a level is meant            *)
(***************************************************************************)
\* a level sent as a JSON string
TextLevels == {"85"}

\* bodies of /api/calculate_gp_hr whose slayer level is a string
MalformedParamSets ==
    { [calculation_mode |-> m, slayer_master_id |-> d,
       user_combat_level |-> c, user_slayer_level |-> t] :
        m \in Modes \ {"specific"}, d \in MasterInputs, c \in CombatLevels,
        t \in TextLevels }
    \cup
    { [calculation_mode |-> "specific", slayer_master_id |-> d,
       specific_monster_id |-> id, user_combat_level |-> c,
       user_slayer_level |-> t] :
        d \in {"nieve"}, id \in MonsterInputs, c \in CombatLevels,
        t \in TextLevels }

\* bodies of /api/slayer/breakdown (test_frontend_slayer.py:152-165)
BreakdownRequests ==
    { [slayer_master_id |-> d,
       user_levels |-> [slayer_level |-> sl, combat_level |-> c]] :
        d \in MasterInputs, sl \in SlayerLevels, c \in CombatLevels }

MalformedBreakdownRequests ==
    { [slayer_master_id |-> d,
       user_levels |-> [slayer_level |-> t, combat_level |-> c]] :
        d \in MasterInputs, t \in TextLevels, c \in CombatLevels }

InitOps ==
    /\ \/ params \in ParamSets
       \/ params \in MalformedParamSets
       \/ params \in BreakdownRequests
       \/ params \in MalformedBreakdownRequests
    /\ user_params \in OverrideSets
    /\ EngineIdle
    /\ est = None
    /\ requests = <<>>

NextOps ==
    \/ Next
    \/ BdStart
    \/ BdNextTarget
    \/ BdFinishTarget
    \/ BdFinishCall

SpecOps == InitOps /\ [][NextOps]_vars

(***************************************************************************)
(* estimate_kph evaluated on its own, over a wider range of targets, user  *)
(* levels and overrides                                                    *)
(***************************************************************************)
Hellhounds ==
    [name |-> "Hellhounds", wiki_slug |-> "hellhounds", slayer_level_req |-> 1,
     combat_level |-> 60, base_kph_range |-> <<30, 50>>, weakness |-> "Slash"]

CaveKrakens ==
    [name |-> "Cave krakens", wiki_slug |-> "cave_krakens",
     slayer_level_req |-> 87, combat_level |-> 127,
     base_kph_range |-> <<0, 20>>, weakness |-> "Magic"]

EstMonsterIds == MonsterIds \cup {"hellhounds", "cave_krakens"}

\* the catalog with the two further targets
EstMonsterData ==
    [id \in EstMonsterIds |->
        CASE id = "hellhounds" -> Hellhounds
          [] id = "cave_krakens" -> CaveKrakens
          [] OTHER -> MonsterCatalog[id]]

EstLevels == {1, 70, 99}

EstUserParams ==
    { [user_combat_level |-> c, user_slayer_level |-> sl,
       user_attack_level |-> m, user_strength_level |-> m,
       user_ranged_level |-> r, user_magic_level |-> g] :
        c \in {3, 70, 100, 126}, sl \in {1, 50, 85, 99},
        m \in EstLevels, r \in {1, 99}, g \in {1, 99} }

\* no override, or a kph override stored under the catalog id of a target
EstOverrides ==
    { <<>> } \cup { (KphKey(id) :> v) : id \in EstMonsterIds, v \in {0, 60} }

\* a lone evaluation touches nothing of the engine
EngineUnchanged_Est ==
    UNCHANGED <<master_data, monster_data, params, user_params, callNo, pc,
                price_cache, idx, monster, estimated_kph, drops,
                total_expected_value, total_weighted_gp_hr, total_probability,
                task_details, result, seen, processed, lookups, results,
                oracleFailed>>

EstInputs ==
    { [id |-> id, user_params |-> u, user_overrides |-> o, done |-> FALSE,
       out |-> RZero] :
        id \in EstMonsterIds, u \in EstUserParams, o \in EstOverrides }

InitEst ==
    /\ params = [calculation_mode |-> "expected", slayer_master_id |-> "nieve",
                 user_slayer_level |-> 85, user_combat_level |-> 100]
    /\ user_params = <<>>
    /\ EngineIdle
    /\ est \in EstInputs
    /\ requests = <<>>

EstimateKph ==
    /\ est # None
    /\ ~est.done
    /\ est' = [est EXCEPT !.done = TRUE,
                          !.out = estimate_kph(EstMonsterData[est.id],
                                               est.user_params,
                                               est.user_overrides)]
    /\ InputsRead
    /\ UNCHANGED <<callNo, pc, price_cache, idx, monster,
                   estimated_kph, drops, total_expected_value,
                   total_weighted_gp_hr, total_probability, task_details,
                   result, seen, processed, lookups, results, oracleFailed,
                   requests>>

NextEst == EstimateKph

SpecEst == InitEst /\ [][NextEst]_vars

(***************************************************************************)
(* get_ge_price called by concurrent requests over the shared price_cache  *)
(* (the server handles every request in a thread of its own)               *)
(***************************************************************************)
\* get_ge_price calls a thread makes one after the other
MaxLookups == 2

Threads == {1, 2}

\* a thread that is not inside get_ge_price
NoLookup == [pc |-> "idle", item |-> 0, out |-> None, n |-> 0]

InitCache ==
    /\ params = [calculation_mode |-> "expected", slayer_master_id |-> "nieve",
                 user_slayer_level |-> 85, user_combat_level |-> 100]
    /\ user_params = <<>>
    /\ EngineIdle
    /\ est = None
    /\ requests = [t \in Threads |-> NoLookup]

\* everything but the cache and the threads' calls
EngineUnchanged ==
    UNCHANGED <<master_data, monster_data, params, user_params, callNo, pc,
                idx, monster, estimated_kph, drops, total_expected_value,
                total_weighted_gp_hr, total_probability, task_details, result,
                seen, processed, lookups, results, oracleFailed, est>>

\* get_ge_price(item_id) is entered by thread t (ge_api.py:16-28)
LookupBegin(t, item_id) ==
    /\ requests[t].pc \in {"idle", "done"}
    /\ requests[t].n < MaxLookups
    /\ requests' = [requests EXCEPT ![t] =
                       [pc |-> "check", item |-> item_id, out |-> None,
                        n |-> requests[t].n + 1]]
    /\ UNCHANGED price_cache
    /\ EngineUnchanged

\* ge_api.py:29: cache_key in price_cache
LookupCheck(t) ==
    /\ requests[t].pc = "check"
    /\ requests' = [requests EXCEPT ![t].pc =
                       IF requests[t].item \in DOMAIN price_cache
                       THEN "read" ELSE "fetch"]
    /\ UNCHANGED price_cache
    /\ EngineUnchanged

\* ge_api.py:31: price_cache[cache_key]; when the entry is gone the KeyError
\* is caught at line 62 and the call returns None
LookupRead(t) ==
    /\ requests[t].pc = "read"
    /\ requests' = [requests EXCEPT
                       ![t].pc = "done",
                       ![t].out = IF requests[t].item \in DOMAIN price_cache
                                  THEN price_cache[requests[t].item]
                                  ELSE None]
    /\ UNCHANGED price_cache
    /\ EngineUnchanged

\* ge_api.py:41-48, 55-57: the oracle answers the request
LookupFetch(t) ==
    /\ requests[t].pc = "fetch"
    /\ requests' = [requests EXCEPT ![t] =
                       IF requests[t].item \in DOMAIN OracleData
                       THEN [@ EXCEPT !.pc = "write",
                                      !.out = OracleData[requests[t].item]]
                       ELSE [@ EXCEPT !.pc = "done", !.out = None]]
    /\ UNCHANGED price_cache
    /\ EngineUnchanged

\* ge_api.py:51-54: the record is cached and returned
LookupWrite(t) ==
    /\ requests[t].pc = "write"
    /\ price_cache' = CachePut(price_cache, requests[t].item, requests[t].out)
    /\ requests' = [requests EXCEPT ![t].pc = "done"]
    /\ EngineUnchanged

NextCache ==
    \/ \E t \in Threads, item_id \in Items : LookupBegin(t, item_id)
    \/ \E t \in Threads : LookupCheck(t)
    \/ \E t \in Threads : LookupRead(t)
    \/ \E t \in Threads : LookupFetch(t)
    \/ \E t \in Threads : LookupWrite(t)
    \/ \E item_id \in Items : Expire(item_id)

SpecCache == InitCache /\ [][NextCache]_vars

(***************************************************************************)
(* calculate_expected_loot evaluated on its own, over drop tables and      *)
(* price oracles drawn from bounded sets                                   *)
(***************************************************************************)
\* calculations.py:533-551 with get_ge_price answering price_of[item_id]
RECURSIVE LootFrom(_, _, _)
LootFrom(total, todo, price_of) ==
    IF todo = <<>> THEN total
    \* line 538: an entry without item_id is passed over
    ELSE IF "item_id" \notin DOMAIN Head(todo)
    THEN LootFrom(total, Tail(todo), price_of)
    ELSE LET v == ValueDrop(total, todo,
                            Get(price_of, Head(todo).item_id, None))
         IN  LootFrom(v[1], v[2], price_of)

\* variant: the sum starts from the fallback value
calculate_expected_loot_FromFallback(drop_table, price_of) ==
    LootFrom(RInt(1000), DropList(drop_table), price_of)

\* calculations.py:523-557
calculate_expected_loot(drop_table, price_of) ==
    LootFrom(RZero, DropList(drop_table), price_of)

\* an entry that holds no item_id
NoItemDrop == [quantity_range |-> <<1, 1>>, probability |-> <<1, 1>>]

LootTables ==
    { <<>>, [always |-> <<Drop(526, 1, 1, <<1, 1>>)>>] }
    \cup
    { [always |-> a, common |-> c, rare |-> r, very_rare |-> v] :
        a \in { <<>>, <<Drop(526, 1, 1, <<1, 1>>)>> },
        c \in { <<>>, <<Drop(995, 50, 150, <<1, 4>>)>>,
                <<Drop(995, 50, 150, <<1, 4>>), Drop(1149, 1, 1, <<3, 20>>)>>,
                <<NoItemDrop>> },
        r \in { <<>>, <<Drop(4151, 1, 1, <<1, 512>>)>> },
        v \in { <<>>, <<Drop(1149, 2, 4, <<1, 100>>)>> } }

\* what the oracle can hold for an item with the given sides: both sides,
\* one side, a record with neither, or nothing
PriceRecords(high, low) ==
    { [high |-> high, low |-> low], [high |-> high], [low |-> low],
      [highTime |-> 0], None }

PriceOracles ==
    { [i \in Items |->
          CASE i = 526 -> a
            [] i = 995 -> b
            [] i = 1149 -> c
            [] OTHER -> d] :
        a \in PriceRecords(6, 4), b \in {[high |-> 1, low |-> 1], None},
        c \in PriceRecords(30, 10), d \in PriceRecords(1500, 548) }

LootInputs ==
    { [drop_table |-> t, price_of |-> o, done |-> FALSE, out |-> RZero] :
        t \in LootTables, o \in PriceOracles }

InitLoot ==
    /\ params = [calculation_mode |-> "expected", slayer_master_id |-> "nieve",
                 user_slayer_level |-> 85, user_combat_level |-> 100]
    /\ user_params = <<>>
    /\ EngineIdle
    /\ est \in LootInputs
    /\ requests = <<>>

ExpectedLoot ==
    /\ est # None
    /\ ~est.done
    /\ est' = [est EXCEPT !.done = TRUE,
                          !.out = calculate_expected_loot(est.drop_table,
                                                          est.price_of)]
    /\ UNCHANGED requests
    /\ EngineUnchanged_Est

NextLoot == ExpectedLoot

SpecLoot == InitLoot /\ [][NextLoot]_vars

(***************************************************************************)
(* adjust_supply_cost evaluated on its own                                 *)
(***************************************************************************)
BaseCosts == {0, 100, 50000}

\* user_params with a numeric combat level, or without the key
CostUsers ==
    { <<>> } \cup { [user_combat_level |-> c] : c \in {3, 50, 90, 100, 126, 200} }

\* user_params whose combat level is a string
CostUsersText == { [user_combat_level |-> t] : t \in TextLevels }

\* no override, an unrelated override, or a numeric multiplier
CostOverrides ==
    { <<>>, [kph_gargoyles |-> 0] }
    \cup { [supply_cost_multiplier |-> m] : m \in {0, 1, 2} }

\* a multiplier that float() rejects
CostOverridesText == { [supply_cost_multiplier |-> "abc"] }

CostInputs(users, overrides) ==
    { [base_cost |-> b, user_params |-> u, user_overrides |-> o,
       done |-> FALSE, out |-> RZero] :
        b \in BaseCosts, u \in users, o \in overrides }

InitCost ==
    /\ params = [calculation_mode |-> "expected", slayer_master_id |-> "nieve",
                 user_slayer_level |-> 85, user_combat_level |-> 100]
    /\ user_params = <<>>
    /\ EngineIdle
    /\ \/ est \in CostInputs(CostUsers, CostOverrides)
       \/ est \in CostInputs(CostUsers, CostOverridesText)
       \/ est \in CostInputs(CostUsersText, CostOverrides)
       \/ est \in CostInputs(CostUsersText, CostOverridesText)
    /\ requests = <<>>

AdjustSupplyCost ==
    /\ est # None
    /\ ~est.done
    /\ est' = [est EXCEPT !.done = TRUE,
                          !.out = adjust_supply_cost(est.base_cost,
                                                     est.user_params,
                                                     est.user_overrides)]
    /\ UNCHANGED requests
    /\ EngineUnchanged_Est

NextCost == AdjustSupplyCost

SpecCost == InitCost /\ [][NextCost]_vars

(***************************************************************************)
(* The same request made in 'expected' mode and then in 'breakdown' mode,  *)
(* while every oracle request is answered and no cache entry expires       *)
(***************************************************************************)
InitModes ==
    /\ params \in { p \in ParamSets : p.calculation_mode = "expected" }
    /\ user_params \in OverrideSets
    /\ EngineIdle
    /\ est = None
    /\ requests = <<>>

\* the client sends the params again with calculation_mode 'breakdown'
\* (comprehensive_bug_analysis.py:96-108)
Resubmit ==
    /\ pc = "done"
    /\ Len(results) = 1
    /\ calc_params.calculation_mode = "expected"
    /\ params' = [params EXCEPT !.calculation_mode = "breakdown"]
    /\ UNCHANGED <<master_data, monster_data, user_params, callNo, pc,
                   price_cache, idx, monster, estimated_kph, drops,
                   total_expected_value, total_weighted_gp_hr,
                   total_probability, task_details, result, seen, processed,
                   lookups, results, oracleFailed, est, requests>>

NextModes ==
    \/ StartCall
    \/ Resubmit
    \/ NextTarget
    \/ GeCheck
    \/ GeRead
    \/ GeFetchAnswered
    \/ FinishTarget
    \/ FinishCall

SpecModes == InitModes /\ [][NextModes]_vars

(***************************************************************************)
(* Calls over a catalog record whose base_kph_range holds strings, or with *)
(* a kph override that is no number                                        *)
(***************************************************************************)
\* the gargoyles document with the range stored as text
MalformedCatalog ==
    [MonsterCatalog EXCEPT !["gargoyles"] =
        [k \in DOMAIN Gargoyles |->
            IF k = "base_kph_range" THEN <<"40", "60">> ELSE Gargoyles[k]]]

\* a kills/hour override float() rejects
TextOverrides == { [kph_gargoyles |-> "fast"] }

KphParamSets ==
    { p \in ParamSets : /\ p.slayer_master_id = "nieve"
                        /\ p.user_slayer_level >= 75
                        /\ p.user_combat_level >= 85 }

InitKph ==
    /\ params \in KphParamSets
    /\ \/ user_params \in TextOverrides /\ monster_data = MonsterCatalog
       \/ user_params \in OverrideSets /\ monster_data = MalformedCatalog
    /\ master_data = MasterCatalog
    /\ callNo = 0
    /\ pc = "idle"
    /\ price_cache = <<>>
    /\ idx = 0
    /\ monster = ""
    /\ estimated_kph = RZero
    /\ drops = <<>>
    /\ total_expected_value = RZero
    /\ total_weighted_gp_hr = RZero
    /\ total_probability = RZero
    /\ task_details = <<>>
    /\ result = None
    /\ seen = <<>>
    /\ processed = <<>>
    /\ lookups = 0
    /\ results = <<>>
    /\ oracleFailed = FALSE
    /\ est = None
    /\ requests = <<>>

SpecKph == InitKph /\ [][Next]_vars

(***************************************************************************)
(* The consistency test: 'expected' mode of /api/calculate_gp_hr, then     *)
(* /api/slayer/breakdown for the same dispenser and levels, every oracle   *)
(* request answered and no cache entry expiring in between                 *)
(***************************************************************************)
\* the user_levels body that carries the levels of calc_params
\* (comprehensive_bug_analysis.py:252-263)
LevelsOf(cp) ==
    [slayer_level |-> cp.user_slayer_level,
     combat_level |-> cp.user_combat_level,
     attack_level |-> cp.user_attack_level,
     strength_level |-> cp.user_strength_level,
     defence_level |-> cp.user_defence_level,
     ranged_level |-> cp.user_ranged_level,
     magic_level |-> cp.user_magic_level]

\* comprehensive_bug_analysis.py:251-263
AskBreakdown ==
    /\ pc = "done"
    /\ ~IsBreakdownRequest
    /\ params' = [slayer_master_id |-> calc_params.slayer_master_id,
                  user_levels |-> LevelsOf(calc_params)]
    /\ UNCHANGED <<master_data, monster_data, user_params, callNo, pc,
                   price_cache, idx, monster, estimated_kph, drops,
                   total_expected_value, total_weighted_gp_hr,
                   total_probability, task_details, result, seen, processed,
                   lookups, results, oracleFailed, est, requests>>

NextBoth ==
    \/ StartCall
    \/ NextTarget
    \/ FinishTarget
    \/ FinishCall
    \/ AskBreakdown
    \/ BdStart
    \/ BdNextTarget
    \/ BdFinishTarget
    \/ BdFinishCall
    \/ GeCheck
    \/ GeRead
    \/ GeFetchAnswered

SpecBoth == InitModes /\ [][NextBoth]_vars

(***************************************************************************)
(* The two aggregation paths over a catalog in which a target holds a      *)
(* combat_level_req, the field get_slayer_task_breakdown reads             *)
(***************************************************************************)
\* the gargoyles document with a combat requirement of its own
RequirementCatalog ==
    [MonsterCatalog EXCEPT !["gargoyles"] =
        [combat_level_req |-> 90] @@ Gargoyles]

InitReq ==
    /\ params \in { p \in ParamSets : p.calculation_mode # "specific" }
    /\ user_params \in OverrideSets
    /\ master_data = MasterCatalog
    /\ monster_data = RequirementCatalog
    /\ callNo = 0
    /\ pc = "idle"
    /\ price_cache = <<>>
    /\ idx = 0
    /\ monster = ""
    /\ estimated_kph = RZero
    /\ drops = <<>>
    /\ total_expected_value = RZero
    /\ total_weighted_gp_hr = RZero
    /\ total_probability = RZero
    /\ task_details = <<>>
    /\ result = None
    /\ seen = <<>>
    /\ processed = <<>>
    /\ lookups = 0
    /\ results = <<>>
    /\ oracleFailed = FALSE
    /\ est = None
    /\ requests = <<>>

SpecReq == InitReq /\ [][NextBoth]_vars

(***************************************************************************)
(* A 'specific' request sent again with another slayer_master_id, every    *)
(* oracle request answered and no cache entry expiring in between          *)
(***************************************************************************)
InitSpecific ==
    /\ params \in { p \in ParamSets : /\ p.calculation_mode = "specific"
                                      /\ p.slayer_master_id # "spria" }
    /\ user_params \in OverrideSets
    /\ EngineIdle
    /\ est = None
    /\ requests = <<>>

\* the request body with slayer_master_id replaced (app.py:134-161)
ChangeMaster(d) ==
    /\ pc = "done"
    /\ Len(results) = 1
    /\ d # params.slayer_master_id
    /\ params' = [params EXCEPT !.slayer_master_id = d]
    /\ UNCHANGED <<master_data, monster_data, user_params, callNo, pc,
                   price_cache, idx, monster, estimated_kph, drops,
                   total_expected_value, total_weighted_gp_hr,
                   total_probability, task_details, result, seen, processed,
                   lookups, results, oracleFailed, est, requests>>

NextSpecific ==
    \/ StartCall
    \/ \E d \in MasterInputs : ChangeMaster(d)
    \/ GeCheck
    \/ GeRead
    \/ GeFetchAnswered
    \/ FinishSpecific

SpecSpecific == InitSpecific /\ [][NextSpecific]_vars

(***************************************************************************)
(* Properties                                                              *)
(***************************************************************************)
Mode == calc_params.calculation_mode
Finished == pc = "done"
MasterKnown == calc_params.slayer_master_id \in DOMAIN master_data
TheMaster == master_data[calc_params.slayer_master_id]

\* the user meets both requirements of the dispenser
MeetsMaster ==
    /\ calc_params.user_combat_level >= TheMaster.combat_req
    /\ calc_params.user_slayer_level >= TheMaster.slayer_req

\* an aggregation call that passed the dispenser gate has returned
Aggregated == Finished /\ Mode # "specific" /\ MasterKnown /\ MeetsMaster

\* ids of the targets of the dispenser that are in the catalog and whose
\* slayer requirement the user meets
EligibleIds ==
    { TaskAssignments[i][1] : i \in
        { j \in 1..Len(TaskAssignments) :
            /\ TaskAssignments[j][1] \in DOMAIN monster_data
            /\ calc_params.user_slayer_level
                 >= monster_data[TaskAssignments[j][1]].slayer_level_req } }

\* of those, the ones whose kills/hour is 0, so that the task time raises
ZeroKphIds ==
    { id \in EligibleIds :
        estimate_kph(monster_data[id], calc_params, user_params) = RZero }

ProcessedIds == { processed[k].id : k \in 1..Len(processed) }

RECURSIVE SumWeighted(_)
SumWeighted(entries) ==
    IF entries = <<>> THEN RZero
    ELSE RAdd(RMul(Head(entries).task_gp_hr, Head(entries).weight),
              SumWeighted(Tail(entries)))

RECURSIVE SumWeights(_)
SumWeights(entries) ==
    IF entries = <<>> THEN RZero
    ELSE RAdd(Head(entries).weight, SumWeights(Tail(entries)))

\* the catalog weights of the given target ids
RECURSIVE CatalogWeight(_, _)
CatalogWeight(assignments, ids) ==
    IF assignments = <<>> THEN RZero
    ELSE RAdd(IF Head(assignments)[1] \in ids THEN Head(assignments)[2]
                                               ELSE RZero,
              CatalogWeight(Tail(assignments), ids))

\* C1: in 'expected' and 'breakdown' mode, for a dispenser of the catalog, a
\* user below the combat or the slayer requirement gets the failure record
\* with gp_hr 0, an error and the four requirement figures, and a user who
\* meets both requirements (also with equal levels) is not rejected.
C1_MasterGate ==
    (Finished /\ Mode # "specific" /\ MasterKnown) =>
        IF MeetsMaster
        THEN /\ "error" \notin DOMAIN result
             /\ "requirements" \notin DOMAIN result
        ELSE /\ DOMAIN result = {"error", "gp_hr", "requirements"}
             /\ result.gp_hr = 0
             /\ result.requirements =
                   [combat_required |-> TheMaster.combat_req,
                    slayer_required |-> TheMaster.slayer_req,
                    user_combat |-> calc_params.user_combat_level,
                    user_slayer |-> calc_params.user_slayer_level]

C1_Witness ==
    /\ Finished
    /\ Mode = "expected"
    /\ calc_params.slayer_master_id = "duradel"
    /\ calc_params.user_combat_level = 85
    /\ "requirements" \in DOMAIN result

\* C2 as claimed: in 'expected' mode every target that is in the catalog and
\* whose slayer requirement the user meets enters the sums, and gp_hr is
\* exactly the weighted sum over the weight sum (0 when none is eligible).
C2_Original ==
    (Aggregated /\ Mode = "expected") =>
        /\ ProcessedIds = EligibleIds
        /\ IF EligibleIds = {} THEN result.gp_hr = 0
           ELSE RInt(result.gp_hr) =
                    RDiv(SumWeighted(processed), SumWeights(processed))

\* C2 amended: in 'expected' mode the targets that enter the sums are those
\* in the catalog whose slayer requirement the user meets and whose
\* kills/hour is not 0; gp_hr is the weighted sum over the weight sum of
\* those targets only, rounded to the nearest integer, and 0 when there is
\* none.
C2_Renormalized ==
    (Aggregated /\ Mode = "expected") =>
        /\ ProcessedIds = EligibleIds \ ZeroKphIds
        /\ result.gp_hr =
              IF processed = <<>> THEN 0
              ELSE Round(RDiv(SumWeighted(processed), SumWeights(processed)))

C2_Witness ==
    /\ Aggregated
    /\ Mode = "expected"
    /\ processed # <<>>
    /\ Len(processed) < Len(TaskAssignments)
    /\ result.gp_hr # 0

\* C3 as claimed: eligible_tasks is the number of targets aggregated into
\* gp_hr, in 'expected' mode as well as in 'breakdown' mode.
C3_Original ==
    Aggregated => result.eligible_tasks = Len(processed)

\* C4 as claimed: total_assignment_probability is exactly the sum of the
\* catalog weights of the targets aggregated into gp_hr.
C4_Original ==
    Aggregated =>
        result.total_assignment_probability =
            CatalogWeight(TaskAssignments, ProcessedIds)

\* C4 amended: total_assignment_probability is the sum of the catalog
\* weights of exactly the targets aggregated into gp_hr, rounded to three
\* decimals.
C4_TotalProbability ==
    Aggregated =>
        result.total_assignment_probability =
            RoundTo(CatalogWeight(TaskAssignments, ProcessedIds), 1000)

C4_Witness ==
    /\ Aggregated
    /\ Len(processed) = 1
    /\ result.total_assignment_probability = <<333, 1000>>

\* what an entry is worth at the price the lookup returned: nothing when
\* the average price is unavailable
Contribution(entry) ==
    LET price == get_average_price(entry[2])
    IN  IF price = None THEN RZero
        ELSE RMul(RMul(price, Mean2(entry[1].quantity_range)),
                  entry[1].probability)

RECURSIVE SumContributions(_)
SumContributions(entries) ==
    IF entries = <<>> THEN RZero
    ELSE RAdd(Contribution(Head(entries)), SumContributions(Tail(entries)))

\* calculate_expected_loot has returned for the current target
Valued == pc = "loot" /\ drops = <<>>

\* C5 as claimed: when the valuation of a table ends, every entry of the
\* table was looked up and the value is the sum of the entries' own
\* contributions, an entry without an average price contributing 0.
C5_Original ==
    Valued =>
        /\ Len(seen) = Len(DropList(Get(monster_data[monster], "drop_table",
                                        <<>>)))
        /\ total_expected_value = SumContributions(seen)

\* C6: in 'specific' mode, for a target of the catalog whose slayer
\* requirement exceeds the user's level, the call returns the failure record
\* with gp_hr 0 and requirements {slayer_required, user_slayer}, and no kph,
\* loot or cost is computed (no target is begun, no price is looked up).
C6_SpecificGate ==
    (/\ Finished
     /\ Mode = "specific"
     /\ "specific_monster_id" \in DOMAIN calc_params
     /\ calc_params.specific_monster_id \in DOMAIN monster_data
     /\ calc_params.user_slayer_level
          < monster_data[calc_params.specific_monster_id].slayer_level_req)
    =>  /\ DOMAIN result = {"error", "gp_hr", "requirements"}
        /\ result.gp_hr = 0
        /\ result.requirements =
              [slayer_required |->
                   monster_data[calc_params.specific_monster_id].slayer_level_req,
               user_slayer |-> calc_params.user_slayer_level]
        /\ lookups = 0
        /\ monster = ""

C6_Witness ==
    /\ Finished
    /\ Mode = "specific"
    /\ "requirements" \in DOMAIN result
    /\ result.requirements = [slayer_required |-> 75, user_slayer |-> 50]

\* the identifier the call needs is not in the catalog
UnknownId ==
    IF Mode = "specific"
    THEN /\ "specific_monster_id" \in DOMAIN calc_params
         /\ calc_params.specific_monster_id \notin DOMAIN monster_data
    ELSE ~MasterKnown

\* C7: a call with an unknown target id ('specific') or an unknown dispenser
\* id ('expected', 'breakdown') returns a record with an error and gp_hr 0,
\* and issues no price lookup.
C7_NotFound ==
    (Finished /\ UnknownId) =>
        /\ DOMAIN result = {"error", "gp_hr"}
        /\ result.gp_hr = 0
        /\ lookups = 0

C7_Witness ==
    /\ Finished
    /\ Mode = "specific"
    /\ UnknownId
    /\ "error" \in DOMAIN result

EstBase == Mean2(Get(EstMonsterData[est.id], "base_kph_range", <<30, 40>>))

\* C8: without a kph override for the target, estimate_kph returns a value
\* in [0.5 * base, 1.5 * base], base being the mean of base_kph_range.
C8_KphBounds ==
    (est # None /\ est.done /\ KphKey(est.id) \notin DOMAIN est.user_overrides)
    =>  /\ RLe(RMul(<<1, 2>>, EstBase), est.out)
        /\ RLe(est.out, RMul(<<3, 2>>, EstBase))

C8_Witness ==
    /\ est # None
    /\ est.done
    /\ est.user_overrides = <<>>
    /\ RLt(RZero, EstBase)
    /\ est.out = RMul(<<1, 2>>, EstBase)

\* C9 as claimed: with an override stored under kph_<catalog id of the
\* target>, estimate_kph returns exactly the override, for every target.
C9_Original ==
    (est # None /\ est.done /\ KphKey(est.id) \in DOMAIN est.user_overrides)
    =>  est.out = RInt(est.user_overrides[KphKey(est.id)])

\* C10 as claimed: two calls with the same inputs, made while every oracle
\* request is answered, return the same gp_hr whatever the cache held.
C10_Original ==
    (Len(results) = 2 /\ ~oracleFailed) =>
        results[1].gp_hr = results[2].gp_hr

\* the running call is over a dispenser: 'expected' or 'breakdown' mode of
\* calculate_slayer_gp_hr, or get_slayer_task_breakdown
DispenserCall == IsBreakdownRequest \/ Mode # "specific"

\* the user's levels as the entry point reads them
OpsCombat ==
    IF IsBreakdownRequest THEN BdUserCombat ELSE calc_params.user_combat_level

OpsSlayer ==
    IF IsBreakdownRequest THEN BdUserSlayer ELSE calc_params.user_slayer_level

\* the dispenser is in the catalog and the user is below one of its
\* requirements
BelowDispenser ==
    /\ MasterKnown
    /\ IsNumber(OpsCombat)
    /\ IsNumber(OpsSlayer)
    /\ \/ OpsCombat < TheMaster.combat_req
       \/ OpsSlayer < TheMaster.slayer_req

\* fields of a result that hold a per-target or an aggregate figure
FigureFields ==
    {"assignments", "overall", "task_breakdown", "eligible_tasks",
     "total_assignment_probability"}

\* C12 as claimed: in every calculation over a dispenser whose requirements
\* the user does not meet, through calculate_slayer_gp_hr or through
\* get_slayer_task_breakdown, no target is evaluated, no price is looked up
\* and the record returned is a failure holding no per-target or aggregate
\* figure.
C12_Original ==
    (DispenserCall /\ BelowDispenser) =>
        /\ monster = ""
        /\ lookups = 0
        /\ Finished => /\ "error" \in DOMAIN result
                       /\ DOMAIN result \cap FigureFields = {}

\* the call raises outside every inner try block: a slayer level that is not
\* a number reaches the comparison of line 302, 425 or 658
TopLevelRaise ==
    IF IsBreakdownRequest
    THEN /\ MasterKnown
         /\ ~IsNumber(BdUserSlayer)
         /\ \E i \in 1..Len(master_assignments) :
                master_assignments[i][1] \in DOMAIN monster_data
    ELSE IF Mode = "specific"
    THEN /\ "specific_monster_id" \in DOMAIN calc_params
         /\ calc_params.specific_monster_id \in DOMAIN monster_data
         /\ ~IsNumber(calc_params.user_slayer_level)
    ELSE /\ MasterKnown
         /\ IsNumber(calc_params.user_combat_level)
         /\ calc_params.user_combat_level >= TheMaster.combat_req
         /\ ~IsNumber(calc_params.user_slayer_level)

\* C13 as claimed: a call of any entry point (calculate_slayer_gp_hr in its
\* three modes, get_slayer_task_breakdown) in which an exception is raised at
\* the top level returns a record with an error and gp_hr = 0.
C13_Original ==
    (Finished /\ TopLevelRaise) =>
        /\ "error" \in DOMAIN result
        /\ "gp_hr" \in DOMAIN result
        /\ result.gp_hr = 0

\* C17: no step of calculate_slayer_gp_hr (any mode) or of
\* get_slayer_task_breakdown changes the catalog of dispensers, the catalog
\* of targets or the user's overrides; of the shared state only the price
\* cache changes.
C17_ReadOnly ==
    [][/\ master_data' = master_data
       /\ monster_data' = monster_data
       /\ user_params' = user_params]_vars

C17_Witness ==
    /\ Finished
    /\ IsBreakdownRequest
    /\ "overall" \in DOMAIN result
    /\ price_cache # <<>>
    /\ master_data = MasterCatalog
    /\ monster_data = MonsterCatalog

\* C11 as claimed: under every interleaving of the steps of concurrent
\* get_ge_price calls and of cache expiry, a finished lookup of an item the
\* oracle prices has returned that item's price record.
C11_Original ==
    \A t \in DOMAIN requests :
        (requests[t].pc = "done" /\ requests[t].item \in DOMAIN OracleData)
        => requests[t].out = OracleData[requests[t].item]

\* the entries of the table that was valued
LootEntries == DropList(est.drop_table)

\* C14: for drop tables whose probabilities, quantity bounds and prices are
\* not negative, calculate_expected_loot returns a value >= 0, and for a
\* table without entries it returns exactly 0.
C14_NonNegative ==
    (est # None /\ est.done) =>
        /\ RLe(RZero, est.out)
        /\ LootEntries = <<>> => est.out = RZero

C14_Witness ==
    /\ est # None
    /\ est.done
    /\ LootEntries = <<>>
    /\ est.out = RZero

\* the average price of a record: the mean of the two sides when both are
\* present, the one present side otherwise
AveragePrice(record) ==
    IF "high" \in DOMAIN record /\ "low" \in DOMAIN record
    THEN Rat(record.high + record.low, 2)
    ELSE IF "high" \in DOMAIN record THEN RInt(record.high)
    ELSE RInt(record.low)

\* the entry has an item whose price record holds at least one side
Priced(entry) ==
    /\ "item_id" \in DOMAIN entry
    /\ est.price_of[entry.item_id] # None
    /\ DOMAIN est.price_of[entry.item_id] \cap {"high", "low"} # {}

RECURSIVE SumEntries(_)
SumEntries(entries) ==
    IF entries = <<>> THEN RZero
    ELSE RAdd(RMul(RMul(AveragePrice(est.price_of[Head(entries).item_id]),
                        Mean2(Head(entries).quantity_range)),
                   Head(entries).probability),
              SumEntries(Tail(entries)))

\* C15: for a table whose every entry has a price with at least one side,
\* calculate_expected_loot returns the sum over every entry of the four tiers
\* of average price x mean(quantity_range) x probability, the average price
\* being the mean of the high and low sides when both are present and the
\* single present side otherwise.
C15_LootSum ==
    (/\ est # None
     /\ est.done
     /\ \A i \in 1..Len(LootEntries) : Priced(LootEntries[i]))
    => est.out = SumEntries(LootEntries)

\* scenario A: one 'always' entry, quantity [1, 1], probability 1, price 5
C15_Witness ==
    /\ est # None
    /\ est.done
    /\ est.drop_table = [always |-> <<Drop(526, 1, 1, <<1, 1>>)>>]
    /\ est.price_of[526] = [high |-> 6, low |-> 4]
    /\ est.out = RInt(5)

\* clamp(1 - (user_combat - 90) / 200, 0.7, 1.3)
ClampedEfficiency(user_combat) ==
    LET raw == RSub(RInt(1), Rat(user_combat - 90, 200))
    IN  IF RLt(raw, <<7, 10>>) THEN <<7, 10>>
        ELSE IF RLt(<<13, 10>>, raw) THEN <<13, 10>>
        ELSE raw

\* C16: with a supply_cost_multiplier override adjust_supply_cost returns
\* base_cost x multiplier; without one it returns base_cost x the clamped
\* efficiency, which lies in [0.7 base_cost, 1.3 base_cost]; when the
\* multiplier or the combat level is not a number (the internal error) it
\* returns base_cost unchanged.
C16_SupplyCost ==
    (est # None /\ est.done) =>
        LET base == RInt(est.base_cost)
            combat == Get(est.user_params, "user_combat_level", 126)
        IN  IF "supply_cost_multiplier" \in DOMAIN est.user_overrides
            THEN IF IsNumber(est.user_overrides.supply_cost_multiplier)
                 THEN est.out =
                        RMul(base,
                             RInt(est.user_overrides.supply_cost_multiplier))
                 ELSE est.out = base
            ELSE IF IsNumber(combat)
            THEN /\ est.out = RMul(base, ClampedEfficiency(combat))
                 /\ RLe(RMul(<<7, 10>>, base), est.out)
                 /\ RLe(est.out, RMul(<<13, 10>>, base))
            ELSE est.out = base

C16_Witness ==
    /\ est # None
    /\ est.done
    /\ est.base_cost = 100
    /\ est.user_overrides = <<>>
    /\ IsNumber(Get(est.user_params, "user_combat_level", 126))
    /\ Get(est.user_params, "user_combat_level", 126) = 3
    /\ est.out = RInt(130)

\* a result without its task_breakdown field
WithoutBreakdown(r) == [k \in DOMAIN r \ {"task_breakdown"} |-> r[k]]

\* C18 as claimed: for the same dispenser, levels, overrides and prices the
\* result of 'breakdown' mode is the result of 'expected' mode plus the
\* task_breakdown field, which 'expected' mode does not return: the modes
\* differ in nothing else.
C18_Original ==
    (Len(results) >= 2 /\ Mode = "breakdown") =>
        /\ "task_breakdown" \notin DOMAIN results[1]
        /\ WithoutBreakdown(results[2]) = results[1]
        /\ "error" \notin DOMAIN results[2]
              => "task_breakdown" \in DOMAIN results[2]

\* names of the targets with the given ids, as the records report them
NamesOf(ids) == { Get(monster_data[id], "name", id) : id \in ids }

\* the names in a task_breakdown list
RecordNames(breakdown) ==
    { breakdown[i].monster_name : i \in 1..Len(breakdown) }

\* the weighted contributions of the records never increase down the list
NonIncreasing(breakdown) ==
    \A i \in 1..(Len(breakdown) - 1) :
        breakdown[i].weighted_contribution
            >= breakdown[i + 1].weighted_contribution

\* C19 as claimed: in 'breakdown' mode task_breakdown holds exactly one
\* record per eligible target, none for a missing or ineligible one, and the
\* records are ordered by non-increasing weighted contribution.
C19_Original ==
    (Aggregated /\ Mode = "breakdown") =>
        /\ Len(result.task_breakdown) = Cardinality(EligibleIds)
        /\ RecordNames(result.task_breakdown) = NamesOf(EligibleIds)
        /\ NonIncreasing(result.task_breakdown)

\* C19 amended: in 'breakdown' mode task_breakdown holds exactly one record
\* per target that is in the catalog, whose slayer requirement the user
\* meets and whose kills/hour is not 0, and no other record; the records are
\* ordered by non-increasing weighted_contribution.
C19_Breakdown ==
    (Aggregated /\ Mode = "breakdown") =>
        /\ Len(result.task_breakdown)
              = Cardinality(EligibleIds \ ZeroKphIds)
        /\ RecordNames(result.task_breakdown)
              = NamesOf(EligibleIds \ ZeroKphIds)
        /\ NonIncreasing(result.task_breakdown)

C19_Witness ==
    /\ Aggregated
    /\ Mode = "breakdown"
    /\ Len(result.task_breakdown) >= 2
    /\ Len(result.task_breakdown) < Len(TaskAssignments)
    /\ result.task_breakdown # task_details
    /\ result.task_breakdown[1].weighted_contribution
          > result.task_breakdown[2].weighted_contribution

\* a 'specific' call for a target of the catalog whose slayer requirement the
\* user meets has returned
SpecificEligible ==
    /\ Finished
    /\ Mode = "specific"
    /\ "specific_monster_id" \in DOMAIN calc_params
    /\ calc_params.specific_monster_id \in DOMAIN monster_data
    /\ calc_params.user_slayer_level
         >= monster_data[calc_params.specific_monster_id].slayer_level_req

TheTarget == monster_data[calc_params.specific_monster_id]

\* the three quantities of the call, before any rounding
SpecificKph == estimate_kph(TheTarget, calc_params, user_params)
SpecificLoot == total_expected_value
SpecificCost ==
    adjust_supply_cost(
        Get(TheTarget, "common_supply_cost_per_hour_base", 50000),
        calc_params, user_params)

\* C20 as claimed: for an eligible target the 'specific' result has gp_hr =
\* kills/hour x loot/kill - adjusted supply cost and hourly_revenue =
\* kills/hour x loot/kill, the kills/hour being the value of estimate_kph, the
\* loot the value of calculate_expected_loot and the cost the value of
\* adjust_supply_cost, and it reports the target's requirements.
C20_Original ==
    SpecificEligible =>
        /\ RInt(result.gp_hr)
              = RSub(RMul(SpecificKph, SpecificLoot), SpecificCost)
        /\ RInt(result.hourly_revenue) = RMul(SpecificKph, SpecificLoot)
        /\ result.kills_per_hour = SpecificKph
        /\ RInt(result.loot_per_kill) = SpecificLoot
        /\ RInt(result.supply_cost_per_hour) = SpecificCost
        /\ result.requirements.slayer_required = TheTarget.slayer_level_req

\* C20 amended: the figures of the result are the roundings of the exact
\* quantities: gp_hr = round(kph x loot - cost), hourly_revenue =
\* round(kph x loot), kills_per_hour = round(kph, 1), loot_per_kill =
\* round(loot), supply_cost_per_hour = round(cost), with kph, loot and cost
\* the unrounded values of estimate_kph, calculate_expected_loot and
\* adjust_supply_cost; requirements holds the target's slayer requirement.
C20_SpecificGpHr ==
    SpecificEligible =>
        /\ result.gp_hr
              = Round(RSub(RMul(SpecificKph, SpecificLoot), SpecificCost))
        /\ result.hourly_revenue = Round(RMul(SpecificKph, SpecificLoot))
        /\ result.kills_per_hour = RoundTo(SpecificKph, 10)
        /\ result.loot_per_kill = Round(SpecificLoot)
        /\ result.supply_cost_per_hour = Round(SpecificCost)
        /\ result.requirements.slayer_required = TheTarget.slayer_level_req
        /\ estimated_kph = SpecificKph

C20_Witness ==
    /\ SpecificEligible
    /\ RSub(RMul(SpecificKph, SpecificLoot), SpecificCost)
          # RInt(result.gp_hr)
    /\ result.hourly_revenue > 0
    /\ result.supply_cost_per_hour > 0
    /\ result.requirements.slayer_required = 75

\* the estimate of the target being processed fails inside estimate_kph
KphFailed == monster # "" /\ KphRaises(monster_data[monster], user_params)

\* C21: when the body of estimate_kph raises for the target being processed
\* (a range of strings, an override that is no number) the estimate is the
\* fallback 30, and the calling mode goes on with it: the target is valued
\* and a 'specific' call returns a result with kills_per_hour 30 and no
\* error.
C21_KphFallback ==
    /\ (pc = "loot" /\ KphFailed) => estimated_kph = RInt(30)
    /\ (SpecificEligible /\ KphFailed)
          => /\ "error" \notin DOMAIN result
             /\ result.kills_per_hour = RInt(30)
             /\ result.hourly_revenue
                   = Round(RMul(RInt(30), total_expected_value))
    /\ (/\ Aggregated
        /\ Mode = "breakdown"
        /\ KphRaises(monster_data["gargoyles"], user_params))
          => \A i \in 1..Len(result.task_breakdown) :
                result.task_breakdown[i].monster_name = "Gargoyles"
                    => result.task_breakdown[i].estimated_kph = RInt(30)

C21_Witness ==
    /\ Aggregated
    /\ Mode = "breakdown"
    /\ user_params \in TextOverrides
    /\ \E i \in 1..Len(result.task_breakdown) :
          /\ result.task_breakdown[i].monster_name = "Gargoyles"
          /\ result.task_breakdown[i].estimated_kph = RInt(30)
    /\ Len(result.task_breakdown) >= 2

\* a call in 'specific' mode whose params hold no specific_monster_id
MissingId == Mode = "specific" /\ "specific_monster_id" \notin DOMAIN calc_params

\* C22: the step that serves a 'specific' call without specific_monster_id
\* returns the failure record with its reason and gp_hr 0, takes no record
\* of the catalog, issues no price lookup and leaves the price cache as it
\* was.
C22_MissingId ==
    [][(callNo' = callNo + 1 /\ MissingId) =>
          /\ result' = [error |-> "Specific monster ID required for specific mode",
                        gp_hr |-> 0]
          /\ pc' = "done"
          /\ monster' = ""
          /\ lookups' = 0
          /\ price_cache' = price_cache]_vars

C22_Witness ==
    /\ Finished
    /\ MissingId
    /\ callNo = 2
    /\ Len(results) = 2
    /\ result = [error |-> "Specific monster ID required for specific mode",
                 gp_hr |-> 0]
    /\ lookups = 0

\* the lookup that just ended gave no price
LookupUnavailable ==
    /\ pc \in {"fetch", "read"}
    /\ pc' = "loot"
    /\ seen'[Len(seen')][2] = None

\* C23: a lookup that ends without a price (request failed, item absent from
\* the body, entry gone from the cache) raises nothing: the valuation goes
\* on to the next entry with the value unchanged, the entry contributing 0,
\* and a call that issued lookups returns a result, never an error record.
C23_FetchDegrades ==
    [][/\ LookupUnavailable =>
            /\ total_expected_value' = total_expected_value
            /\ drops' = Tail(drops)
            /\ result' = result
       /\ (pc' = "done" /\ lookups' > 0) => "error" \notin DOMAIN result']_vars

C23_Witness ==
    /\ Finished
    /\ Mode = "specific"
    /\ oracleFailed
    /\ lookups >= 2
    /\ price_cache = <<>>
    /\ "error" \notin DOMAIN result
    /\ result.loot_per_kill = 0
    /\ result.gp_hr < 0

\* the two figures the consistency test compares, once both calls returned
BothReturned ==
    /\ Finished
    /\ IsBreakdownRequest
    /\ Len(results) >= 2
    /\ "overall" \in DOMAIN results[Len(results)]

ExpectedFigure == results[1].gp_hr
BreakdownFigure == results[Len(results)].overall.expected_gp_per_hour

Distance(a, b) == IF a >= b THEN a - b ELSE b - a
Larger(a, b) == IF a >= b THEN a ELSE b

\* C24 as claimed: for the same dispenser, levels and prices, when gp_hr of
\* 'expected' mode and overall.expected_gp_per_hour of the breakdown are both
\* positive they differ by at most 10% of the larger.
C24_Original ==
    (BothReturned /\ ExpectedFigure > 0 /\ BreakdownFigure > 0) =>
        10 * Distance(ExpectedFigure, BreakdownFigure)
            <= Larger(ExpectedFigure, BreakdownFigure)

\* get_slayer_task_breakdown has returned its breakdown
BreakdownReturned ==
    /\ Finished
    /\ IsBreakdownRequest
    /\ "overall" \in DOMAIN result

\* positions in the dispenser's list of the assignments that are in the
\* catalog and whose two requirements the user meets
EligiblePositions ==
    { i \in 1..Len(master_assignments) :
        /\ master_assignments[i][1] \in DOMAIN monster_data
        /\ MeetsTarget(monster_data[master_assignments[i][1]]) }

RECURSIVE SumOver(_, _)
SumOver(f, S) ==
    IF S = {} THEN RZero
    ELSE LET x == CHOOSE y \in S : TRUE
         IN  RAdd(f[x], SumOver(f, S \ {x}))

EligibleWeight ==
    SumOver([i \in 1..Len(master_assignments) |-> master_assignments[i][2]],
            EligiblePositions)

\* C25: in the breakdown each returned assignment is an eligible one and has
\* probability = weight / (sum of the weights of the eligible assignments);
\* with at least one eligible assignment the probabilities sum to 1;
\* available_tasks is the number of returned assignments and is never more
\* than total_possible_tasks.
C25_Probabilities ==
    BreakdownReturned =>
        LET a == result.assignments
        IN  /\ { a[i].monster_id : i \in 1..Len(a) }
                  = { master_assignments[i][1] : i \in EligiblePositions }
            /\ Len(a) = Cardinality(EligiblePositions)
            /\ \A i \in 1..Len(a) :
                  a[i].probability = RDiv(a[i].weight, EligibleWeight)
            /\ a # <<>> =>
                  SumOver([i \in 1..Len(a) |-> a[i].probability], 1..Len(a))
                      = RInt(1)
            /\ result.overall.available_tasks = Len(a)
            /\ result.overall.available_tasks
                  <= result.overall.total_possible_tasks
            /\ result.overall.total_possible_tasks = Len(master_assignments)

C25_Witness ==
    /\ BreakdownReturned
    /\ Len(result.assignments) = 2
    /\ result.overall.total_possible_tasks = 4
    /\ \E i \in 1..2 : result.assignments[i].probability = <<8, 11>>

\* the target the loop of either path stands at, when it is in the catalog
AtTarget(list) ==
    /\ idx >= 1
    /\ idx <= Len(list)
    /\ list[idx][1] \in DOMAIN monster_data

TargetHere(list) == monster_data[list[idx][1]]

SlayerMetBy(level, monster_info) ==
    level >= Get(monster_info, "slayer_level_req", 1)

CombatMetBy(level, monster_info) ==
    level >= Get(monster_info, "combat_level_req", 1)

\* names of the targets of the dispenser in the catalog whose slayer
\* requirement the level meets
SlayerEligibleNames(list, level) ==
    { Get(monster_data[list[i][1]], "name", list[i][1]) :
        i \in { j \in 1..Len(list) :
                  /\ list[j][1] \in DOMAIN monster_data
                  /\ SlayerMetBy(level, monster_data[list[j][1]]) } }

TargetAggregated ==
    /\ ~IsBreakdownRequest
    /\ pc = "loot"
    /\ Len(processed') = Len(processed) + 1

\* q: the mean of the dispenser's quantity range for the target, 125 when
\* the table has no entry for it
QuantityOf(target) ==
    LET table == Get(TheMaster, "avg_task_quantity", <<>>)
    IN  IF target \in DOMAIN table
        THEN Rat(table[target][1] + table[target][2], 2)
        ELSE RInt(125)

\* t = q / kph + 0.1 hours
HoursOf(target) == RAdd(RDiv(QuantityOf(target), estimated_kph), <<1, 10>>)

\* (loot x q - cost x t) / t
GpHrOf(target) ==
    RDiv(RSub(RMul(total_expected_value, QuantityOf(target)),
              RMul(AdjustedSupplyCost(monster_data[target]), HoursOf(target))),
         HoursOf(target))

\* C27: the task_gp_hr with which a target enters the sums of 'expected' and
\* 'breakdown' mode is (loot x q - cost x t) / t, q being the mean of the
\* dispenser's quantity range for the target, or 125 when the table has no
\* entry for it, and t = q / kph + 0.1; the record 'breakdown' mode keeps
\* holds that figure, q and t rounded.
C27_TaskGpHr ==
    [][TargetAggregated =>
          /\ processed'[Len(processed')].task_gp_hr = GpHrOf(monster)
          /\ total_weighted_gp_hr'
                = RAdd(total_weighted_gp_hr,
                       RMul(GpHrOf(monster), TaskAssignments[idx][2]))
          /\ Mode = "breakdown" =>
                LET d == task_details'[Len(task_details')]
                IN  /\ d.task_gp_hr = Round(GpHrOf(monster))
                    /\ d.avg_task_quantity = Round(QuantityOf(monster))
                    /\ d.task_time_hours = RoundTo(HoursOf(monster), 100)]_vars

C27_Witness ==
    /\ Aggregated
    /\ Mode = "breakdown"
    /\ \E i, j \in 1..Len(result.task_breakdown) :
          /\ result.task_breakdown[i].avg_task_quantity = 125
          /\ result.task_breakdown[i].monster_name = "Rune Dragons"
          /\ result.task_breakdown[j].avg_task_quantity = 63
          /\ result.task_breakdown[j].task_gp_hr > 0

\* the item of the lookup in progress, and what the lookup returned
LookedUp == Head(drops).item_id
Returned == seen'[Len(seen')][2]

\* a lookup ends in this step
LookupEnds == pc \in {"fetch", "read"} /\ pc' = "loot"

\* C28: a fetch that succeeds stores the record it returns; a lookup of an
\* item whose entry is in the cache returns that entry, issues no oracle
\* request and changes no entry; a lookup that ends unavailable leaves the
\* cache unchanged and the item out of it, and a lookup of an item that is
\* not in the cache asks the oracle; no entry of the cache is 'unavailable'.
C28_CacheProtocol ==
    [][/\ (LookupEnds /\ pc = "fetch" /\ Returned # None) =>
            /\ LookedUp \in DOMAIN price_cache'
            /\ price_cache'[LookedUp] = Returned
       /\ (pc = "loot" /\ pc' \in {"fetch", "read"}) =>
            (pc' = "read" <=> LookedUp \in DOMAIN price_cache)
       /\ (LookupEnds /\ pc = "read" /\ LookedUp \in DOMAIN price_cache) =>
            /\ Returned = price_cache[LookedUp]
            /\ price_cache' = price_cache
       /\ (LookupEnds /\ Returned = None) =>
            /\ price_cache' = price_cache
            /\ LookedUp \notin DOMAIN price_cache'
       /\ \A i \in DOMAIN price_cache' :
            /\ price_cache'[i] # None
            /\ i \in DOMAIN price_cache => price_cache'[i] = price_cache[i]]_vars

\* the second call finds in the cache the record the first call fetched
C28_Witness ==
    /\ callNo = 2
    /\ pc = "read"
    /\ LookedUp \in DOMAIN price_cache
    /\ price_cache[LookedUp] = [high |-> 6, low |-> 4]
    /\ oracleFailed

\* positions in the dispenser's list of the eligible targets whose
\* kills/hour is not 0
SurvivingPositions ==
    { i \in 1..Len(TaskAssignments) :
        TaskAssignments[i][1] \in EligibleIds \ ZeroKphIds }

SurvivingWeight ==
    SumOver([i \in 1..Len(TaskAssignments) |-> TaskAssignments[i][2]],
            SurvivingPositions)

\* C29: when the kills/hour of an eligible target is 0, so that its task
\* time cannot be computed, 'expected'/'breakdown' mode leaves out that
\* target only: the other eligible targets are aggregated, the sums and
\* total_assignment_probability hold their weights alone, and the call
\* returns its figures, not an error record.
C29_TargetFailure ==
    (Aggregated /\ ZeroKphIds # {}) =>
        /\ "error" \notin DOMAIN result
        /\ ProcessedIds = EligibleIds \ ZeroKphIds
        /\ SumWeights(processed) = SurvivingWeight
        /\ result.total_assignment_probability
              = RoundTo(SurvivingWeight, 1000)
        /\ result.gp_hr =
              IF SurvivingPositions = {} THEN 0
              ELSE Round(RDiv(SumWeighted(processed), SurvivingWeight))
        /\ Mode = "breakdown" =>
              RecordNames(result.task_breakdown)
                  = NamesOf(EligibleIds \ ZeroKphIds)

C29_Witness ==
    /\ Aggregated
    /\ ZeroKphIds = {"gargoyles"}
    /\ ProcessedIds = {"abyssal_demons"}
    /\ result.gp_hr > 0
    /\ result.total_assignment_probability = <<667, 1000>>

\* C30: the result of a 'specific' call does not depend on slayer_master_id:
\* the calls of a request that is sent again with another dispenser return
\* equal results, and an estimate is returned for a dispenser that is not in
\* the catalog or whose requirements the user does not meet.
C30_MasterIgnored ==
    /\ \A i, j \in 1..Len(results) : results[i] = results[j]
    /\ (Finished /\ SpecificEligible) =>
          /\ "error" \notin DOMAIN result
          /\ result.gp_hr
                = Round(RSub(RMul(SpecificKph, SpecificLoot), SpecificCost))

\* an estimate for a dispenser that is not in the catalog, equal to the one
\* returned before for a dispenser of the catalog
C30_Witness ==
    /\ Finished
    /\ Len(results) = 2
    /\ params.slayer_master_id = "spria"
    /\ "kills_per_hour" \in DOMAIN results[1]
    /\ results[2] = results[1]
    /\ result.gp_hr # 0

\* the same, for a dispenser whose combat requirement the user does not meet
C30_WitnessUnmet ==
    /\ Finished
    /\ Len(results) = 2
    /\ params.slayer_master_id = "duradel"
    /\ calc_params.user_combat_level < master_data["duradel"].combat_req
    /\ "kills_per_hour" \in DOMAIN results[2]

====
